---- MODULE Spec2Model ----
(***************************************************************************)
(* Model of the astrbot_plugin_meta_collect plugin:                        *)
(*   - the push scheduler of main.py (initialize, terminate, push_task,    *)
(*     send_push_to_groups, calculate_sleep_time, _parse_push_times);      *)
(*   - the group-file tree walk of src/file_ops.py                         *)
(*     (get_all_files_with_path);                                          *)
(*   - the command handlers of main.py (query_detail with                  *)
(*     _find_file_in_group, check_updates, check_push_status,              *)
(*     manual_push).                                                       *)
(* Strings are sequences of one-character strings, so that split, strip,   *)
(* int and os.path.join are computed the way Python computes them.         *)
(***************************************************************************)
EXTENDS Integers, Sequences, FiniteSets, TLC

VARIABLES
    \* ---- plugin object (main.py, MelonSearchPlugin) ----
    push_enabled,        \* self.push_enabled
    push_times,          \* self.push_times (string)
    push_target_groups,  \* self.push_target_groups (list of group ids)
    _session,            \* self._session: "none" | "open" | "closed"
    _push_tasks,         \* self._push_tasks: one record per created task
    life,                \* position of the plugin's lifecycle callbacks
    reqOnClosed,         \* history: a task issued a request on a closed session
    status_reply,        \* check_push_status: "none" | "replied" | "raised"
    \* ---- calculate_sleep_time applied to drawn inputs ----
    cs_now, cs_target, cs_result,
    \* ---- get_all_files_with_path ----
    w_parent,            \* the group's file store: folder -> parent folder
    w_name,              \*   folder -> folder_name
    w_files,             \*   folder -> file_name of each of its files
    w_noId,              \*   the folder whose record carries no folder_id
    w_link,              \*   folder records a listing repeats from elsewhere
    folders_to_scan,     \* the work queue
    all_files,           \* the result list
    w_pc,                \* "idle" | "walking" | "returned"
    w_listed,            \* history: the listing calls made and how each ended
    \* ---- _find_file_in_group applied to drawn inputs ----
    ff_code, ff_files, ff_result,
    \* ---- check_updates (fetch_recent_updates, format_push_message) ----
    push_check_hours,    \* self.push_check_hours
    cu_hours,            \* the handler's hours argument
    cu_now,              \* the clock when fetch_recent_updates reads it
    cu_pc,               \* "idle" | "called" | "fetching" | "replied"
    cu_query,            \* the request issued: fetch's argument and the params
    cu_data,             \* what _fetch_json returned
    cu_reply,            \* the reply the handler yielded
    \* ---- query_detail ----
    qd_message,          \* event.message_str
    qd_group_id,         \* event.get_group_id()
    qd_bot,              \* whether event.bot is set
    qd_pc,               \* "idle" | "called" | "walking" | "querying" | "returned"
    qd_files,            \* what _get_all_group_files returned
    qd_match,            \* what _find_file_in_group returned
    qd_queries,          \* history: the code of each backend detail query
    qd_replies,          \* history: the replies yielded
    \* ---- one push_task against the clock ----
    ck_push_time,        \* the task's push_time
    ck_now,              \* the clock: seconds since 00:00 of day 0, microseconds
    ck_pc,               \* "created" | "sleeping" | "firing" | "cooldown" |
                         \* "backoff" | "done"
    ck_wake,             \* the clock value at which the current sleep is due
    ck_fires,            \* history: one record per fire
    ck_pauses,           \* history: the number of 300 s pauses begun
    \* ---- manual_push ----
    mp_call,             \* the running call: position and fan-out locals
    mp_replies,          \* history: the replies yielded
    mp_stopped           \* event.stop_event() was called

schedVars == <<push_enabled, push_times, push_target_groups, _session,
               _push_tasks, life, reqOnClosed, status_reply>>
sleepVars == <<cs_now, cs_target, cs_result>>
walkVars  == <<w_parent, w_name, w_files, w_noId, w_link,
               folders_to_scan, all_files, w_pc, w_listed>>
findVars  == <<ff_code, ff_files, ff_result>>
\* the variables of the command handlers and of the functions they call
updVars   == <<push_check_hours, cu_hours, cu_now, cu_pc, cu_query, cu_data,
               cu_reply>>
detailVars == <<qd_message, qd_group_id, qd_bot, qd_pc, qd_files, qd_match,
                qd_queries, qd_replies>>
manualVars == <<mp_call, mp_replies, mp_stopped>>
handlerVars == <<findVars, updVars, detailVars, manualVars>>
clockVars == <<ck_push_time, ck_now, ck_pc, ck_wake, ck_fires, ck_pauses>>
vars == <<schedVars, sleepVars, walkVars, handlerVars, clockVars>>

(***************************************************************************)
(* Strings                                                                 *)
(***************************************************************************)
DigitChars == <<"0", "1", "2", "3", "4", "5", "6", "7", "8", "9">>

IsDigit(c) == \E i \in 1..Len(DigitChars) : DigitChars[i] = c

DigitVal(c) == (CHOOSE i \in 1..Len(DigitChars) : DigitChars[i] = c) - 1

\* the two-character, zero padded decimal of n (0 <= n <= 99)
TwoDigits(n) == <<DigitChars[(n \div 10) + 1], DigitChars[(n % 10) + 1]>>

\* str.strip(): whitespace removed at both ends
RECURSIVE LStrip(_)
LStrip(s) == IF s # <<>> /\ Head(s) = " " THEN LStrip(Tail(s)) ELSE s

RECURSIVE RStrip(_)
RStrip(s) ==
    IF s # <<>> /\ s[Len(s)] = " " THEN RStrip(SubSeq(s, 1, Len(s) - 1)) ELSE s

Strip(s) == RStrip(LStrip(s))

\* str.split(sep) for a one-character sep: always at least one piece
RECURSIVE SplitFrom(_, _, _)
SplitFrom(s, sep, cur) ==
    IF s = <<>> THEN <<cur>>
    ELSE IF Head(s) = sep THEN <<cur>> \o SplitFrom(Tail(s), sep, <<>>)
    ELSE SplitFrom(Tail(s), sep, Append(cur, Head(s)))

Split(s, sep) == SplitFrom(s, sep, <<>>)

\* int(s): surrounding whitespace and one sign are accepted, then digits only.
\* The result is [ok, val]; ok = FALSE stands for the ValueError int raises.
RECURSIVE DigitsValue(_, _)
DigitsValue(s, acc) ==
    IF s = <<>> THEN acc ELSE DigitsValue(Tail(s), acc * 10 + DigitVal(Head(s)))

ParseInt(s) ==
    LET t    == Strip(s)
        sign == IF t # <<>> /\ Head(t) = "-" THEN -1 ELSE 1
        body == IF t # <<>> /\ Head(t) \in {"-", "+"} THEN Tail(t) ELSE t
    IN  IF body = <<>> \/ \E i \in 1..Len(body) : ~IsDigit(body[i])
        THEN [ok |-> FALSE, val |-> 0]
        ELSE [ok |-> TRUE, val |-> sign * DigitsValue(body, 0)]

(***************************************************************************)
(* _parse_push_times (main.py 65-68)                                       *)
(***************************************************************************)
RECURSIVE NonEmptyStripped(_)
NonEmptyStripped(ts) ==
    IF ts = <<>> THEN <<>>
    ELSE IF Strip(Head(ts)) # <<>>
         THEN <<Strip(Head(ts))>> \o NonEmptyStripped(Tail(ts))
         ELSE NonEmptyStripped(Tail(ts))

_parse_push_times(times_string) == NonEmptyStripped(Split(times_string, ","))

(***************************************************************************)
(* calculate_sleep_time (main.py 527-545)                                  *)
(* A datetime is [day, hour, minute, second, microsecond]; the returned    *)
(* timedelta.total_seconds() is kept exact as [seconds, microseconds];     *)
(* raised = TRUE stands for the ValueError the call ends with.             *)
(***************************************************************************)
SecondsPerDay == 86400
MicrosPerSecond == 1000000

SecondOfDay(dt) == dt.hour * 3600 + dt.minute * 60 + dt.second

\* dt1 <= dt2 on datetimes
DtLeq(a, b) ==
    \/ a.day < b.day
    \/ a.day = b.day /\ SecondOfDay(a) < SecondOfDay(b)
    \/ a.day = b.day /\ SecondOfDay(a) = SecondOfDay(b)
                     /\ a.microsecond <= b.microsecond

\* (a - b).total_seconds() for a >= b
DtDiff(a, b) ==
    LET secs == (a.day - b.day) * SecondsPerDay + SecondOfDay(a) - SecondOfDay(b)
        us   == a.microsecond - b.microsecond
    IN  IF us < 0 THEN [seconds |-> secs - 1, microseconds |-> us + MicrosPerSecond]
                  ELSE [seconds |-> secs, microseconds |-> us]

\* a comparison that lets the occurrence at this very instant count as future
TargetNotAfterNow_Strict(target, now) == DtLeq(target, now) /\ target # now

\* "target <= now" of line 541
TargetNotAfterNow(target, now) == DtLeq(target, now)

\* the ValueError raised by the unpacking, by int or by now.replace
SleepTimeError == [raised |-> TRUE, seconds |-> 0, microseconds |-> 0]

calculate_sleep_time(now, target_time) ==
    LET parts == Split(target_time, ":")
    IN  IF Len(parts) # 2 THEN SleepTimeError      \* hour, minute = ...
        ELSE LET hour   == ParseInt(parts[1])
                 minute == ParseInt(parts[2])
             IN  IF ~hour.ok \/ ~minute.ok THEN SleepTimeError
                 ELSE IF hour.val \notin 0..23 \/ minute.val \notin 0..59
                      THEN SleepTimeError           \* now.replace(...) refuses
                 ELSE LET target == [now EXCEPT !.hour = hour.val,
                                                !.minute = minute.val,
                                                !.second = 0, !.microsecond = 0]
                          rolled == IF TargetNotAfterNow(target, now)
                                    THEN [target EXCEPT !.day = @ + 1]
                                    ELSE target
                          d      == DtDiff(rolled, now)
                      IN  [raised |-> FALSE, seconds |-> d.seconds,
                           microseconds |-> d.microseconds]

(***************************************************************************)
(* push_task and send_push_to_groups (main.py 497-525, 547-576)            *)
(* A task record holds the coroutine's position (pc: the await it is       *)
(* suspended at), the pending cancellation request, the locals of the      *)
(* running send_push_to_groups (message, i), and the history of the        *)
(* current cycle: the destinations a send was attempted to, those whose    *)
(* send raised, those the error log names, whether the task ever entered   *)
(* send_push_to_groups, and the await a cancellation was delivered at.     *)
(*   pc: "created"   task object exists, coroutine not yet run             *)
(*       "sleep"     await asyncio.sleep(sleep_time)        line 563       *)
(*       "fetch"     await session.get(...) / resp.json()   lines 77-81    *)
(*       "send"      await context.send_message(...)        line 517       *)
(*       "pause"     await asyncio.sleep(1)                 line 520       *)
(*       "cooldown"  await asyncio.sleep(60)                line 570       *)
(*       "backoff"   await asyncio.sleep(300)               line 576       *)
(*       "done"      the coroutine has ended                               *)
(***************************************************************************)
NewTask(push_time) ==
    [push_time |-> push_time, pc |-> "created", cancel |-> FALSE,
     message |-> "none", i |-> 0, attempted |-> <<>>,
     raised |-> <<>>, logged |-> <<>>, fired |-> FALSE, cancelledAt |-> "none"]

\* a handler that leaves the loop instead of pausing and retrying
OnCycleError_LeavesLoop(r) == [r EXCEPT !.pc = "done"]

\* the handler of "except Exception" in push_task (lines 574-576)
OnCycleError(r) == [r EXCEPT !.pc = "backoff"]

\* one pass through the head of the while loop (lines 556-563)
BeginCycle(r, now) ==
    LET fresh == [r EXCEPT !.message = "none", !.i = 0, !.attempted = <<>>,
                           !.raised = <<>>, !.logged = <<>>]
    IN  IF calculate_sleep_time(now, r.push_time).raised
        THEN OnCycleError(fresh)
        ELSE [fresh EXCEPT !.pc = "sleep"]

\* the for loop moves to its next destination, or send_push_to_groups
\* returns and push_task goes on to line 570
NextDestination(r) ==
    IF r.i < Len(push_target_groups)
    THEN [r EXCEPT !.i = @ + 1,
                   !.attempted = Append(@, push_target_groups[r.i + 1]),
                   !.pc = "send"]
    ELSE [r EXCEPT !.pc = "cooldown"]

\* fetch_recent_updates (lines 434-449): what the caller gets for each
\* outcome of the request
Melons(data) == IF data \in {"failed", "empty"} THEN "empty_list" ELSE data

\* format_push_message (lines 462-495) on what fetch_recent_updates returned;
\* a payload that is no list of records makes item.get raise
FormatMessage(melons) ==
    CASE melons = "empty_list" -> "no_updates"
      [] melons = "records"    -> "digest"
      [] OTHER                 -> "raises"

\* send_push_to_groups from the return of the fetch to its first await or
\* its return (lines 501-517, 524-525)
AfterFetch(r, data) ==
    IF push_target_groups = <<>>
    THEN [r EXCEPT !.pc = "cooldown"]
    ELSE IF FormatMessage(Melons(data)) = "raises"
         THEN [r EXCEPT !.pc = "cooldown"]
         ELSE NextDestination([r EXCEPT
                                 !.message = FormatMessage(Melons(data))])

\* the handler of "except Exception" inside the for loop (lines 521-522)
OnSendError(r) == [r EXCEPT !.logged = Append(@, push_target_groups[r.i])]

\* a task that swallows a cancellation delivered in its pre-fire sleep and
\* goes on to its fire
OnCancelled_FiresFirst(r) ==
    IF r.pc = "sleep"
    THEN [r EXCEPT !.pc = "fetch", !.fired = TRUE, !.cancel = FALSE]
    ELSE [r EXCEPT !.pc = "done", !.cancelledAt = r.pc]

\* asyncio.CancelledError thrown at the task's current await: it passes every
\* "except Exception" and ends the coroutine (lines 571-573, or uncaught from
\* line 576 or before the first step)
OnCancelled(r) == [r EXCEPT !.pc = "done", !.cancelledAt = r.pc]

\* Task.cancel(): a request, delivered at the task's next step
RequestCancel(r) == IF r.pc = "done" THEN r ELSE [r EXCEPT !.cancel = TRUE]

\* a terminate that closes the session without signalling the tasks
CancelAll_NoSignal(tasks) == tasks

\* the loop of terminate (lines 56-57)
CancelAll(tasks) == [k \in DOMAIN tasks |-> RequestCancel(tasks[k])]

\* a start condition that forgets the target list
ShouldStartTasks_EnabledOnly == push_enabled

\* the condition of line 45
ShouldStartTasks == push_enabled /\ push_target_groups # <<>>

\* lines 46-48: one task per entry of _parse_push_times()
CreatedTasks(times) == [k \in 1..Len(times) |-> NewTask(times[k])]

Tasks == DOMAIN _push_tasks

Runnable(t) == _push_tasks[t].pc # "done" /\ ~_push_tasks[t].cancel

\* a step that writes its task's record over every task's
SetTask_AllTasks(t, r) == _push_tasks' = [u \in DOMAIN _push_tasks |-> r]

SetTask(t, r) == _push_tasks' = [_push_tasks EXCEPT ![t] = r]

(***************************************************************************)
(* Inputs of the scheduler specification                                   *)
(***************************************************************************)
MaxGroups == 3

\* push_target_groups: the group ids 1..n in configured order
GroupList(n) == [k \in 1..n |-> k]

\* push_times strings: the default's shape, a repeated time, blanks and empty
\* entries, an unparseable entry, an out-of-range hour, the empty string
PushTimesSamples ==
    { <<"0","8",":","0","0",",","1","2",":","0","0">>,
      <<"0","8",":","0","0",",","0","8",":","0","0">>,
      <<" ","0","8",":","0","0"," ",",",",","x","x">>,
      <<"2","5",":","0","0",",","1","2",":","0","0">>,
      <<"8",":","0","0">>,
      <<>> }

\* the clock readings a task may see at line 537
SchedNows ==
    { [day |-> 0, hour |-> 7, minute |-> 59, second |-> 0, microsecond |-> 0],
      [day |-> 0, hour |-> 8, minute |-> 0, second |-> 0, microsecond |-> 0] }

FetchOutcomes == {"failed", "empty", "records", "malformed"}

SleepIdle == cs_now = <<>> /\ cs_target = <<>> /\ cs_result = <<>>

WalkIdle ==
    /\ w_parent = <<>> /\ w_name = <<>> /\ w_files = <<>> /\ w_noId = 0
    /\ w_link = <<>>
    /\ folders_to_scan = <<>> /\ all_files = <<>> /\ w_pc = "idle" /\ w_listed = <<>>

FindIdle == ff_code = <<>> /\ ff_files = <<>> /\ ff_result = <<>>

UpdIdle ==
    /\ push_check_hours = 12 /\ cu_hours = <<>> /\ cu_now = <<>>
    /\ cu_pc = "idle" /\ cu_query = <<>> /\ cu_data = <<>> /\ cu_reply = <<>>

ClockIdle ==
    /\ ck_push_time = <<>> /\ ck_now = <<>> /\ ck_pc = "idle" /\ ck_wake = <<>>
    /\ ck_fires = <<>> /\ ck_pauses = 0

DetailIdle ==
    /\ qd_message = <<>> /\ qd_group_id = <<>> /\ qd_bot = FALSE /\ qd_pc = "idle"
    /\ qd_files = <<>> /\ qd_match = <<>> /\ qd_queries = <<>> /\ qd_replies = <<>>

ManualIdle == mp_call = <<>> /\ mp_replies = <<>> /\ mp_stopped = FALSE

HandlerIdle == FindIdle /\ UpdIdle /\ DetailIdle /\ ManualIdle

\* __init__ (lines 25-38)
Init ==
    /\ push_enabled \in BOOLEAN
    /\ push_times \in PushTimesSamples
    /\ push_target_groups \in {GroupList(n) : n \in 0..MaxGroups}
    /\ _session = "none"
    /\ _push_tasks = <<>>
    /\ life = "constructed"
    /\ reqOnClosed = FALSE
    /\ status_reply = "none"
    /\ SleepIdle /\ WalkIdle /\ HandlerIdle /\ ClockIdle

(***************************************************************************)
(* Lifecycle callbacks                                                     *)
(***************************************************************************)
\* initialize (lines 40-51)
Initialize ==
    /\ life = "constructed"
    /\ _session' = "open"
    /\ _push_tasks' = IF ShouldStartTasks
                     THEN _push_tasks \o CreatedTasks(_parse_push_times(push_times))
                     ELSE _push_tasks
    /\ life' = "running"
    /\ UNCHANGED <<push_enabled, push_times, push_target_groups, reqOnClosed,
                   status_reply>>
    /\ UNCHANGED <<sleepVars, walkVars, handlerVars, clockVars>>

\* terminate up to the await of line 61: the cancel loop, then the session's
\* close() marks it closed before it first suspends
TerminateBegin ==
    /\ life = "running"
    /\ _push_tasks' = CancelAll(_push_tasks)
    /\ _session' = "closed"
    /\ life' = "closing"
    /\ UNCHANGED <<push_enabled, push_times, push_target_groups, reqOnClosed,
                   status_reply>>
    /\ UNCHANGED <<sleepVars, walkVars, handlerVars, clockVars>>

\* terminate from the return of close() (lines 61-63)
TerminateEnd ==
    /\ life = "closing"
    /\ life' = "terminated"
    /\ UNCHANGED <<push_enabled, push_times, push_target_groups, _session,
                   _push_tasks, reqOnClosed, status_reply>>
    /\ UNCHANGED <<sleepVars, walkVars, handlerVars, clockVars>>

(***************************************************************************)
(* Steps of one push_task: each runs the coroutine from one await to the   *)
(* next                                                                    *)
(***************************************************************************)
TaskFrame == UNCHANGED <<push_enabled, push_times, push_target_groups,
                         _session, life, status_reply, sleepVars, walkVars,
                         handlerVars, clockVars>>

\* first step: lines 554-563
Start(t) ==
    /\ Runnable(t) /\ _push_tasks[t].pc = "created"
    /\ \E now \in SchedNows : SetTask(t, BeginCycle(_push_tasks[t], now))
    /\ UNCHANGED reqOnClosed /\ TaskFrame

\* line 563 returns; send_push_to_groups is entered and the request of
\* fetch_recent_updates is issued (lines 566-567, 501, 434, 77). A closed
\* session refuses at once: _fetch_json catches that and returns None.
SleepEnds(t) ==
    /\ Runnable(t) /\ _push_tasks[t].pc = "sleep"
    /\ LET r == [_push_tasks[t] EXCEPT !.fired = TRUE]
       IN  IF _session = "open"
           THEN SetTask(t, [r EXCEPT !.pc = "fetch"]) /\ UNCHANGED reqOnClosed
           ELSE SetTask(t, AfterFetch(r, "failed")) /\ reqOnClosed' = TRUE
    /\ TaskFrame

\* the request ends, one way or another (lines 78-84, 436-449, 503-517)
FetchReturns(t) ==
    /\ Runnable(t) /\ _push_tasks[t].pc = "fetch"
    /\ \E data \in FetchOutcomes : SetTask(t, AfterFetch(_push_tasks[t], data))
    /\ UNCHANGED reqOnClosed /\ TaskFrame

\* send_message returned (lines 517-520)
SendReturns(t) ==
    /\ Runnable(t) /\ _push_tasks[t].pc = "send"
    /\ SetTask(t, [_push_tasks[t] EXCEPT !.pc = "pause"])
    /\ UNCHANGED reqOnClosed /\ TaskFrame

\* a send error that ends the whole fan-out instead of one iteration
SendRaises_AbortsFanOut(t) ==
    /\ Runnable(t) /\ _push_tasks[t].pc = "send"
    /\ SetTask(t, [OnSendError([_push_tasks[t] EXCEPT
                      !.raised = Append(@, push_target_groups[_push_tasks[t].i])])
                   EXCEPT !.pc = "cooldown"])
    /\ UNCHANGED reqOnClosed /\ TaskFrame

\* send_message raised (lines 517, 521-522, then the next iteration)
SendRaises(t) ==
    /\ Runnable(t) /\ _push_tasks[t].pc = "send"
    /\ SetTask(t, NextDestination(
                     OnSendError([_push_tasks[t] EXCEPT
                        !.raised = Append(@, push_target_groups[_push_tasks[t].i])])))
    /\ UNCHANGED reqOnClosed /\ TaskFrame

\* the 1 s pause is over (line 520, then the next iteration)
PauseEnds(t) ==
    /\ Runnable(t) /\ _push_tasks[t].pc = "pause"
    /\ SetTask(t, NextDestination(_push_tasks[t]))
    /\ UNCHANGED reqOnClosed /\ TaskFrame

\* the 60 s cooldown is over (line 570, then lines 556-563)
CooldownEnds(t) ==
    /\ Runnable(t) /\ _push_tasks[t].pc = "cooldown"
    /\ \E now \in SchedNows : SetTask(t, BeginCycle(_push_tasks[t], now))
    /\ UNCHANGED reqOnClosed /\ TaskFrame

\* the 300 s pause is over (line 576, then lines 556-563)
BackoffEnds(t) ==
    /\ Runnable(t) /\ _push_tasks[t].pc = "backoff"
    /\ \E now \in SchedNows : SetTask(t, BeginCycle(_push_tasks[t], now))
    /\ UNCHANGED reqOnClosed /\ TaskFrame

\* the step of a task whose cancellation was requested
Cancelled(t) ==
    /\ _push_tasks[t].pc # "done" /\ _push_tasks[t].cancel
    /\ SetTask(t, OnCancelled(_push_tasks[t]))
    /\ UNCHANGED reqOnClosed /\ TaskFrame

\* check_push_status (lines 594-621): with the push enabled it computes the
\* time to the next push of every configured time, and a time that
\* calculate_sleep_time refuses makes the handler raise before it replies
CheckPushStatus ==
    /\ life = "running" /\ status_reply = "none"
    /\ \E now \in SchedNows :
          LET times == _parse_push_times(push_times)
          IN  status_reply' =
                  IF push_enabled
                     /\ \E i \in DOMAIN times :
                            calculate_sleep_time(now, times[i]).raised
                  THEN "raised" ELSE "replied"
    /\ UNCHANGED <<push_enabled, push_times, push_target_groups, _session,
                   _push_tasks, life, reqOnClosed>>
    /\ UNCHANGED <<sleepVars, walkVars, handlerVars, clockVars>>

Next ==
    \/ Initialize
    \/ TerminateBegin
    \/ TerminateEnd
    \/ CheckPushStatus
    \/ \E t \in Tasks : Start(t)
    \/ \E t \in Tasks : SleepEnds(t)
    \/ \E t \in Tasks : FetchReturns(t)
    \/ \E t \in Tasks : SendReturns(t)
    \/ \E t \in Tasks : SendRaises(t)
    \/ \E t \in Tasks : PauseEnds(t)
    \/ \E t \in Tasks : CooldownEnds(t)
    \/ \E t \in Tasks : BackoffEnds(t)
    \/ \E t \in Tasks : Cancelled(t)

Spec == Init /\ [][Next]_vars

(***************************************************************************)
(* Properties of the scheduler (specification Spec)                        *)
(***************************************************************************)
TaskRec(t) == _push_tasks[t]

C2_CancelWhileSleeping ==
    [][\A t \in Tasks :
         /\ (TaskRec(t).cancel /\ TaskRec(t).pc \in {"sleep", "cooldown"})
              => \/ _push_tasks'[t] = TaskRec(t)
                 \/ _push_tasks'[t] = [TaskRec(t) EXCEPT !.pc = "done",
                                        !.cancelledAt = TaskRec(t).pc]
         /\ TaskRec(t).pc = "done" => _push_tasks'[t] = TaskRec(t)]_vars

\* C2 witness: one task was cancelled in its pre-fire sleep before it ever
\* fired, another in its cooldown.
C2_Witness ==
    /\ \E t \in Tasks : /\ TaskRec(t).pc = "done" /\ ~TaskRec(t).fired
                        /\ TaskRec(t).cancelledAt = "sleep"
    /\ \E u \in Tasks : /\ TaskRec(u).pc = "done"
                        /\ TaskRec(u).cancelledAt = "cooldown"

\* C3: once the fan-out of a fire has started, the task does not end before
\* every configured destination got its send attempt (stated as the claim
\* has it; the code delivers the cancellation inside the fan-out).
C3_FanOutNeverInterrupted ==
    \A t \in Tasks :
        (TaskRec(t).pc = "done" /\ TaskRec(t).message # "none")
            => TaskRec(t).attempted = push_target_groups

\* C4: in every fan-out the sends are attempted in configured order, each
\* destination once; the error log names exactly the destinations whose send
\* raised; and a fan-out that has returned has attempted every destination.
C4_EveryDestinationAttempted ==
    \A t \in Tasks :
        /\ TaskRec(t).attempted =
               SubSeq(push_target_groups, 1, Len(TaskRec(t).attempted))
        /\ TaskRec(t).i = Len(TaskRec(t).attempted)
        /\ TaskRec(t).logged = TaskRec(t).raised
        /\ (TaskRec(t).pc = "cooldown" /\ TaskRec(t).message # "none")
               => TaskRec(t).attempted = push_target_groups

\* C4 witness: three destinations, the send to the second raised, all three
\* were attempted and the log holds that one failure.
C4_Witness ==
    \E t \in Tasks :
        /\ TaskRec(t).pc = "cooldown"
        /\ TaskRec(t).attempted = <<1, 2, 3>>
        /\ TaskRec(t).raised = <<2>>
        /\ TaskRec(t).logged = <<2>>

\* a task counts as live until it has ended or its cancellation is requested
LiveTasks == {t \in Tasks : TaskRec(t).pc # "done" /\ ~TaskRec(t).cancel}

DistinctTimes ==
    LET times == _parse_push_times(push_times)
    IN  {times[k] : k \in 1..Len(times)}

\* C6: after initialize with pushing enabled and targets configured the number
\* of live tasks is the number of distinct configured times, and after
\* terminate none is live (stated as the claim has it; the code starts one
\* task per entry, repeated or not).
C6_OneTaskPerDistinctTime ==
    /\ (life = "running" /\ push_enabled /\ push_target_groups # <<>>)
           => Cardinality(LiveTasks) = Cardinality(DistinctTimes)
    /\ life = "terminated" => LiveTasks = {}

\* C7: terminate signals before it closes: whenever the session is closed
\* every task that has not ended has its cancellation requested, and no task
\* ever issued a request on the closed session.
C7_SignalThenClose ==
    /\ ~reqOnClosed
    /\ _session = "closed"
          => \A t \in Tasks : TaskRec(t).pc # "done" => TaskRec(t).cancel

\* C7 witness: the session is closed and tasks were caught by terminate in
\* the middle of a request and in a sleep.
C7_Witness ==
    /\ _session = "closed"
    /\ \E t \in Tasks : TaskRec(t).cancelledAt = "fetch"
    /\ \E u \in Tasks : TaskRec(u).cancelledAt \in {"sleep", "backoff"}

\* C8: unless pushing is enabled and the target list is non-empty, initialize
\* creates no task, so no scheduled fire can occur.
C8_TasksNeedEnabledAndTargets ==
    ~(push_enabled /\ push_target_groups # <<>>)
        => /\ _push_tasks = <<>>
           /\ \A t \in Tasks : ~TaskRec(t).fired

\* C8 witness: initialize has run with pushing enabled and times configured
\* but no target group, and no task exists.
C8_Witness ==
    /\ life = "running" /\ _session = "open"
    /\ push_enabled /\ push_target_groups = <<>>
    /\ _parse_push_times(push_times) # <<>>
    /\ _push_tasks = <<>>

(***************************************************************************)
(* calculate_sleep_time on drawn inputs (specification SpecSleep)          *)
(***************************************************************************)
\* "HH:MM" as the configuration writes it
TimeText(h, m) == TwoDigits(h) \o <<":">> \o TwoDigits(m)

MinuteSamples == {0, 30, 59}
SecondSamples == {0, 1, 59}
MicroSamples  == {0, 1, 999999}

NowSamples ==
    [day : {0}, hour : 0..23, minute : MinuteSamples,
     second : SecondSamples, microsecond : MicroSamples]

\* every hour of the day with the sampled minutes, and entries that are not
\* a valid HH:MM
TargetMinutes == {0, 1, 59}

TargetSamples ==
    {TimeText(h, m) : h \in 0..23, m \in TargetMinutes}
      \cup { <<"8", ":", "0">>, <<" ", "8", ":", "5", " ">>,
             <<"2", "4", ":", "0", "0">>, <<"0", "8", ":", "6", "0">>,
             <<"0", "8", ":", "0", "0", ":", "0", "0">>, <<"0", "8", "0", "0">>,
             <<"x", "x">>, <<"-", "1", ":", "0", "0">>, <<"0", "8", ":">> }

SchedIdle ==
    /\ push_enabled = FALSE /\ push_times = <<>> /\ push_target_groups = <<>>
    /\ _session = "none" /\ _push_tasks = <<>> /\ life = "constructed"
    /\ reqOnClosed = FALSE
    /\ status_reply = "none"

InitSleep ==
    /\ cs_now \in NowSamples
    /\ cs_target \in TargetSamples
    /\ cs_result = <<>>
    /\ SchedIdle /\ WalkIdle /\ HandlerIdle /\ ClockIdle

\* one call of calculate_sleep_time(cs_target) with the clock at cs_now
CalcSleep ==
    /\ cs_result = <<>>
    /\ cs_result' = <<calculate_sleep_time(cs_now, cs_target)>>
    /\ UNCHANGED <<cs_now, cs_target, schedVars, walkVars, handlerVars,
                 clockVars>>

NextSleep == CalcSleep

SpecSleep == InitSleep /\ [][NextSleep]_vars

\* the time to the first occurrence of h:m:00 strictly after now, by modular
\* arithmetic on the time of day
UntilNextOccurrence(now, h, m) ==
    LET T == h * 3600 + m * 60
        N == SecondOfDay(now)
    IN  IF now.microsecond = 0
        THEN [seconds |-> ((T - N - 1) % 86400) + 1, microseconds |-> 0]
        ELSE [seconds |-> (T - N - 1) % 86400,
              microseconds |-> 1000000 - now.microsecond]

\* C5: for a valid HH:MM target calculate_sleep_time returns the time to the
\* first occurrence of HH:MM:00 strictly after now, which is more than 0 s
\* and at most 86400 s (the valid targets drawn are TimeText(h, m) for every
\* hour h and the minutes of TargetMinutes).
C5_SleepUntilNextOccurrence ==
    \A h \in 0..23, m \in TargetMinutes :
        (cs_result # <<>> /\ cs_target = TimeText(h, m))
            => LET res == cs_result[1]
                   exp == UntilNextOccurrence(cs_now, h, m)
               IN  /\ ~res.raised
                   /\ res.seconds = exp.seconds
                   /\ res.microseconds = exp.microseconds
                   /\ (res.seconds > 0 \/ res.microseconds > 0)
                   /\ (res.seconds < 86400
                         \/ (res.seconds = 86400 /\ res.microseconds = 0))
                   /\ (SecondOfDay(cs_now) = 7 * 3600 + 59 * 60
                         /\ cs_now.microsecond = 0 /\ h = 8 /\ m = 0)
                        => res.seconds = 60 /\ res.microseconds = 0
                   /\ (SecondOfDay(cs_now) = 8 * 3600 + 1
                         /\ cs_now.microsecond = 0 /\ h = 8 /\ m = 0)
                        => res.seconds = 86399 /\ res.microseconds = 0

\* C5 witness: called at exactly 08:00:00 with target 08:00, the result is a
\* full day.
C5_Witness ==
    /\ cs_result # <<>>
    /\ cs_target = TimeText(8, 0)
    /\ cs_now = [day |-> 0, hour |-> 8, minute |-> 0, second |-> 0,
                 microsecond |-> 0]
    /\ cs_result[1] = [raised |-> FALSE, seconds |-> 86400, microseconds |-> 0]

(***************************************************************************)
(* get_all_files_with_path (src/file_ops.py 10-58)                         *)
(* The store is a tree of folders 1..n under the root (folder 0, whose     *)
(* folder_id is None). A listing returns a folder's files and sub-folder   *)
(* records in the store's order. w_link holds the folder records a listing *)
(* returns besides those of the tree: [parent, child] makes the listing of *)
(* parent end with a record that carries the folder_id of child.           *)
(***************************************************************************)
MaxFolders == 2

\* the walk itself has no bound; the model stops issuing listing calls here
MaxListings == 2 * MaxFolders + 2

Sep == "/"

\* a join that forgets the path walked so far
PathJoin_DropsParent(a, b) == b

\* os.path.join(a, b) of lines 42 and 51 (posixpath.join)
PathJoin(a, b) ==
    IF b # <<>> /\ Head(b) = Sep THEN b
    ELSE IF a = <<>> \/ a[Len(a)] = Sep THEN a \o b
    ELSE a \o <<Sep>> \o b

Folders == DOMAIN w_parent

\* the sub-folder records of a listing
RECURSIVE ChildrenFrom(_, _)
ChildrenFrom(f, k) ==
    IF k > Len(w_parent) THEN <<>>
    ELSE IF w_parent[k] = f THEN <<k>> \o ChildrenFrom(f, k + 1)
    ELSE ChildrenFrom(f, k + 1)

RECURSIVE LinkedFrom(_, _)
LinkedFrom(f, k) ==
    IF k > Len(w_link) THEN <<>>
    ELSE IF w_link[k].parent = f THEN <<w_link[k].child>> \o LinkedFrom(f, k + 1)
    ELSE LinkedFrom(f, k + 1)

Children(f) == ChildrenFrom(f, 1) \o LinkedFrom(f, 1)

\* lines 40-45: one entry per file record of the listing
RECURSIVE FileEntries(_, _, _)
FileEntries(f, path, j) ==
    IF j > Len(w_files[f + 1]) THEN <<>>
    ELSE <<[file_name |-> w_files[f + 1][j],
            relative_path |-> PathJoin(path, w_files[f + 1][j]),
            parent_id |-> f]>>
         \o FileEntries(f, path, j + 1)

\* lines 48-52: one queue entry per folder record that carries a folder_id
RECURSIVE FolderEntries(_, _)
FolderEntries(cs, path) ==
    IF cs = <<>> THEN <<>>
    ELSE (IF Head(cs) # w_noId
          THEN <<[folder_id |-> Head(cs), folder_name |-> w_name[Head(cs)],
                  relative_path |-> PathJoin(path, w_name[Head(cs)])]>>
          ELSE <<>>)
         \o FolderEntries(Tail(cs), path)

\* line 23
RootEntry == [folder_id |-> 0, folder_name |-> <<"r">>, relative_path |-> <<>>]

\* a failed listing that ends the whole walk
AbandonFolder_AbortsWalk(queue) == <<>>

\* lines 36-37 and 54-56: "continue" leaves the rest of the queue in place
AbandonFolder(queue) == Tail(queue)

WalkFrame ==
    UNCHANGED <<w_parent, w_name, w_files, w_noId, w_link, schedVars, sleepVars,
                handlerVars, clockVars>>

\* a pass that reads the head of the queue without removing it
ListOk_KeepsHead ==
    /\ w_pc = "walking" /\ folders_to_scan # <<>>
    /\ Len(w_listed) < MaxListings
    /\ LET cur == Head(folders_to_scan)
       IN  /\ all_files' = all_files
                  \o FileEntries(cur.folder_id, cur.relative_path, 1)
           /\ folders_to_scan' = folders_to_scan
                  \o FolderEntries(Children(cur.folder_id), cur.relative_path)
           /\ w_listed' = Append(w_listed, [folder |-> cur.folder_id, ok |-> TRUE])
    /\ UNCHANGED w_pc /\ WalkFrame

\* one pass of the loop whose listing call returns a listing (lines 26-52)
ListOk ==
    /\ w_pc = "walking" /\ folders_to_scan # <<>>
    /\ Len(w_listed) < MaxListings
    /\ LET cur == Head(folders_to_scan)
       IN  /\ all_files' = all_files
                  \o FileEntries(cur.folder_id, cur.relative_path, 1)
           /\ folders_to_scan' = Tail(folders_to_scan)
                  \o FolderEntries(Children(cur.folder_id), cur.relative_path)
           /\ w_listed' = Append(w_listed, [folder |-> cur.folder_id, ok |-> TRUE])
    /\ UNCHANGED w_pc /\ WalkFrame

\* one pass whose listing call raises (lines 26-34, 54-56)
ListRaises ==
    /\ w_pc = "walking" /\ folders_to_scan # <<>>
    /\ Len(w_listed) < MaxListings
    /\ folders_to_scan' = AbandonFolder(folders_to_scan)
    /\ w_listed' = Append(w_listed,
                          [folder |-> Head(folders_to_scan).folder_id, ok |-> FALSE])
    /\ UNCHANGED <<all_files, w_pc>> /\ WalkFrame

\* one pass whose listing call returns nothing (lines 26-37)
ListEmpty ==
    /\ w_pc = "walking" /\ folders_to_scan # <<>>
    /\ Len(w_listed) < MaxListings
    /\ folders_to_scan' = AbandonFolder(folders_to_scan)
    /\ w_listed' = Append(w_listed,
                          [folder |-> Head(folders_to_scan).folder_id, ok |-> FALSE])
    /\ UNCHANGED <<all_files, w_pc>> /\ WalkFrame

\* the queue is empty: line 58
WalkReturns ==
    /\ w_pc = "walking" /\ folders_to_scan = <<>>
    /\ w_pc' = "returned"
    /\ UNCHANGED <<folders_to_scan, all_files, w_listed>> /\ WalkFrame

NextWalk == ListOk \/ ListRaises \/ ListEmpty \/ WalkReturns

(***************************************************************************)
(* Inputs of the walk                                                      *)
(***************************************************************************)
FolderLetters == <<"M", "2", "x", "y">>

\* a usual name, a missing name (folder.get('folder_name', '')), a name that
\* starts with the separator, a name that ends with it
NameKinds == {"plain", "empty", "absolute", "trailing"}

FolderName(kind, k) ==
    CASE kind = "plain"    -> <<FolderLetters[k]>>
      [] kind = "empty"    -> <<>>
      [] kind = "absolute" -> <<Sep, FolderLetters[k]>>
      [] kind = "trailing" -> <<FolderLetters[k], Sep>>

\* the files of one folder: none, one, or two of which the first has a name
\* that starts with the separator
FileLists == { <<>>, << <<"a">> >>, << <<Sep, "b">>, <<"c">> >> }

Trees(n) == {p \in [1..n -> 0..n] : \A k \in 1..n : p[k] < k}

InitWalk ==
    /\ \E n \in 0..MaxFolders :
         /\ w_parent \in Trees(n)
         /\ \E kinds \in [1..n -> NameKinds] :
               w_name = [k \in 1..n |-> FolderName(kinds[k], k)]
         /\ w_files \in [1..(n + 1) -> FileLists]
         /\ w_noId \in 0..n
    /\ w_link = <<>>
    /\ folders_to_scan = <<RootEntry>>
    /\ all_files = <<>>
    /\ w_pc = "walking"
    /\ w_listed = <<>>
    /\ SchedIdle /\ SleepIdle /\ HandlerIdle /\ ClockIdle

SpecWalk == InitWalk /\ [][NextWalk]_vars

(***************************************************************************)
(* Properties of the walk (specification SpecWalk)                         *)
(***************************************************************************)
Listed(f) == \E k \in DOMAIN w_listed : w_listed[k].folder = f

Succeeded(f) ==
    \E k \in DOMAIN w_listed : w_listed[k].folder = f /\ w_listed[k].ok

RECURSIVE AncestorsSucceeded(_)
AncestorsSucceeded(f) ==
    f = 0 \/ (Succeeded(w_parent[f]) /\ AncestorsSucceeded(w_parent[f]))

\* the files, as <<folder, file_name>>, of the folders whose own listing and
\* all ancestors' listings succeeded
FilesOfSucceededBranches ==
    UNION { {<<f, w_files[f + 1][j]>> : j \in 1..Len(w_files[f + 1])} :
            f \in {g \in {0} \cup Folders :
                      Succeeded(g) /\ AncestorsSucceeded(g)} }

ResultFiles ==
    {<<all_files[i].parent_id, all_files[i].file_name>> : i \in DOMAIN all_files}

RECURSIVE PathNames(_)
PathNames(f) ==
    IF f = 0 THEN <<>> ELSE Append(PathNames(w_parent[f]), w_name[f])

\* names joined by the path separator
RECURSIVE JoinAll(_)
JoinAll(names) ==
    IF names = <<>> THEN <<>>
    ELSE IF Len(names) = 1 THEN names[1]
    ELSE names[1] \o <<Sep>> \o JoinAll(Tail(names))

NestingPath(e) == JoinAll(Append(PathNames(e.parent_id), e.file_name))

\* C10 as claimed: with all listings succeeding, every returned entry's
\* relative_path is the folder names from the root to its folder and its
\* file name, joined by the separator (the code's os.path.join drops the
\* separator of an empty name and restarts at a name that begins with it).
C10_PathReproducesNesting ==
    (w_pc = "returned" /\ \A k \in DOMAIN w_listed : w_listed[k].ok)
        => \A i \in DOMAIN all_files :
              all_files[i].relative_path = NestingPath(all_files[i])

FolderNameJoins(name) ==
    name # <<>> /\ Head(name) # Sep /\ name[Len(name)] # Sep

EntryNamesJoin(e) ==
    /\ \A k \in DOMAIN PathNames(e.parent_id) :
          FolderNameJoins(PathNames(e.parent_id)[k])
    /\ (e.file_name = <<>> \/ Head(e.file_name) # Sep)

\* C10 amended: every entry whose folders on the path all have a non-empty
\* name that neither starts nor ends with the separator, and whose file name
\* does not start with it, has relative_path equal to those folder names and
\* the file name joined by the separator.
C10_PathReproducesNestingOfJoinableNames ==
    \A i \in DOMAIN all_files :
        EntryNamesJoin(all_files[i])
            => all_files[i].relative_path = NestingPath(all_files[i])

\* C10 witness: all listings succeeded, a file two folders deep came back as
\* M/2/a and a top-level file as its bare name.
C10_Witness ==
    /\ w_pc = "returned" /\ \A k \in DOMAIN w_listed : w_listed[k].ok
    /\ \E i \in DOMAIN all_files :
          /\ all_files[i].parent_id = 2 /\ w_parent[2] = 1
          /\ all_files[i].relative_path = <<"M", Sep, "2", Sep, "a">>
    /\ \E i \in DOMAIN all_files :
          /\ all_files[i].parent_id = 0
          /\ all_files[i].relative_path = <<"a">>

(***************************************************************************)
(* Termination and coverage of the walk on trees (specification SpecWalk)  *)
(***************************************************************************)
\* the number of listing calls issued for folder f
ListingCount(f) == Cardinality({k \in DOMAIN w_listed : w_listed[k].folder = f})

\* f is the root, or a folder whose record carries a folder_id and whose
\* ancestors' listings all succeeded
RECURSIVE ReachableBySuccess(_)
ReachableBySuccess(f) ==
    \/ f = 0
    \/ /\ f # w_noId
       /\ Succeeded(w_parent[f])
       /\ ReachableBySuccess(w_parent[f])

\* C11: on every finite folder tree the walk terminates with an empty queue
\* after exactly one listing call for the root and exactly one for each
\* folder (record with a folder_id) reachable through successful listings:
\* at every moment no folder has been listed twice, only reachable folders
\* have been listed, the listings made and the entries queued together never
\* exceed the number of folders plus the root (so at most that many passes
\* happen), a walk that has not returned always has a next step, and at the
\* return the queue is empty and every reachable folder has its one listing.
C11_OneListingPerReachableFolder ==
    /\ \A f \in {0} \cup Folders : ListingCount(f) <= 1
    /\ \A k \in DOMAIN w_listed : ReachableBySuccess(w_listed[k].folder)
    /\ Len(w_listed) + Len(folders_to_scan) <= Cardinality(Folders) + 1
    /\ w_pc = "walking" => ENABLED NextWalk
    /\ w_pc = "returned" =>
          /\ folders_to_scan = <<>>
          /\ ListingCount(0) = 1
          /\ \A f \in Folders : ReachableBySuccess(f) => ListingCount(f) = 1

\* C11 witness: the walk of a root with two folders, one inside the other,
\* returned with three listing calls, one per folder.
C11_Witness ==
    /\ w_pc = "returned" /\ folders_to_scan = <<>>
    /\ Len(w_parent) = 2 /\ w_parent[2] = 1
    /\ Len(w_listed) = 3
    /\ \A f \in 0..2 : ListingCount(f) = 1

(***************************************************************************)
(* The walk on stores whose listings repeat a folder id (specification     *)
(* SpecWalkGraph): a folder under two parents, a folder returned twice by  *)
(* one listing, a folder whose listing contains itself or an ancestor.     *)
(***************************************************************************)
GraphFileLists == { <<>>, << <<"a">> >> }

\* one repeated folder record, or none
Links(n) ==
    {<<>>} \cup {<<[parent |-> p, child |-> c]>> : p \in 0..n, c \in 1..n}

InitWalkGraph ==
    /\ \E n \in 1..MaxFolders :
         /\ w_parent \in Trees(n)
         /\ w_name = [k \in 1..n |-> FolderName("plain", k)]
         /\ w_files \in [1..(n + 1) -> GraphFileLists]
         /\ w_link \in Links(n)
    /\ w_noId = 0
    /\ folders_to_scan = <<RootEntry>>
    /\ all_files = <<>>
    /\ w_pc = "walking"
    /\ w_listed = <<>>
    /\ SchedIdle /\ SleepIdle /\ HandlerIdle /\ ClockIdle

SpecWalkGraph == InitWalkGraph /\ [][NextWalk]_vars

\* C12 as claimed: whatever the listings return, no folder id is listed more
\* than once (the code keeps no set of visited ids, so a folder id met twice
\* is queued and listed twice, and one met on its own branch again and again).
C12_EachFolderIdListedAtMostOnce ==
    \A f \in {0} \cup Folders : ListingCount(f) <= 1

(***************************************************************************)
(* _find_file_in_group (main.py 132-157), applied to drawn inputs          *)
(* (specification SpecFind)                                                *)
(***************************************************************************)
ExtSep == "."

\* str.rfind: the last position of character c in s, 0 when there is none
RECURSIVE RFind(_, _, _)
RFind(s, c, k) ==
    IF k = 0 THEN 0 ELSE IF s[k] = c THEN k ELSE RFind(s, c, k - 1)

\* a split at the last dot of the name wherever that dot stands
splitext_AtLastDot(p) ==
    LET dotIndex == RFind(p, ExtSep, Len(p))
    IN  IF dotIndex > 0
        THEN [root |-> SubSeq(p, 1, dotIndex - 1),
              ext |-> SubSeq(p, dotIndex, Len(p))]
        ELSE [root |-> p, ext |-> <<>>]

\* os.path.splitext of line 150 (posixpath): the extension starts at the last
\* dot, provided that dot comes after the last separator and after a
\* character of the last component that is not a dot
splitext(p) ==
    LET sepIndex == RFind(p, Sep, Len(p))
        dotIndex == RFind(p, ExtSep, Len(p))
    IN  IF dotIndex > sepIndex
           /\ \E k \in (sepIndex + 1)..(dotIndex - 1) : p[k] # ExtSep
        THEN [root |-> SubSeq(p, 1, dotIndex - 1),
              ext |-> SubSeq(p, dotIndex, Len(p))]
        ELSE [root |-> p, ext |-> <<>>]

\* file_info.get('file_name', '') of line 148
FileNameOf(file_info) ==
    IF file_info.has_name THEN file_info.file_name ELSE <<>>

\* line 150
BaseName(file_info) == splitext(FileNameOf(file_info)).root

\* the results of the function: None, or the entry at a position of the list
NoFile == [found |-> FALSE, index |-> 0]

\* lines 147-155: the loop over the list from position i
RECURSIVE FindFrom(_, _, _)
FindFrom(code, files, i) ==
    IF i > Len(files) THEN NoFile
    ELSE IF BaseName(files[i]) = code THEN [found |-> TRUE, index |-> i]
    ELSE FindFrom(code, files, i + 1)

\* a search that keeps the last matching entry instead of the first
_find_file_in_group_LastMatch(code, group_files) ==
    LET hits == {i \in DOMAIN group_files.list :
                    BaseName(group_files.list[i]) = code}
    IN  IF ~group_files.present \/ hits = {} THEN NoFile
        ELSE [found |-> TRUE,
              index |-> CHOOSE i \in hits : \A j \in hits : j <= i]

\* lines 144-157; group_files is None (present = FALSE) or a list
_find_file_in_group(code, group_files) ==
    IF ~group_files.present \/ group_files.list = <<>> THEN NoFile
    ELSE FindFrom(code, group_files.list, 1)

MaxEntries == 2

FileNameSamples ==
    { <<"X", "0", "0", "1", ".", "z", "i", "p">>,
      <<"X", "0", "0", "1", "1", ".", "z", "i", "p">>,
      <<"X", "0", "0", "1", ".", "p", "d", "f">>,
      <<"X", "0", "0", "1">>,
      <<".", "X", "0", "0", "1">>,
      <<"X", "0", "0", "1", ".">>,
      <<"X", "0", "0", "1", ".", "t", "a", "r", ".", "g", "z">>,
      <<"x", "0", "0", "1", ".", "z", "i", "p">>,
      <<"a", "/", "X", "0", "0", "1", ".", "z", "i", "p">>,
      <<".", ".", "X", "0", "0", "1">>,
      <<".", "X", "0", "0", "1", ".", "z", "i", "p">>,
      <<" ", "X", "0", "0", "1", ".", "z", "i", "p">>,
      <<"a", ".", "b", "/", "X", "0", "0", "1">> }

CodeSamples ==
    { <<"X", "0", "0", "1">>,
      <<".">>,
      <<"a">>,
      <<"X", "0", "0", "1", "1">>,
      <<".", "X", "0", "0", "1">>,
      <<"X", "0", "0", "1", ".", "t", "a", "r">>,
      <<"x", "0", "0", "1">> }

\* entries with a file_name, and the entry without one
EntrySamples ==
    {[has_name |-> TRUE, file_name |-> n] : n \in FileNameSamples}
        \cup {[has_name |-> FALSE, file_name |-> <<>>]}

RECURSIVE ListsUpTo(_, _)
ListsUpTo(S, n) ==
    IF n = 0 THEN {<<>>}
    ELSE LET shorter == ListsUpTo(S, n - 1)
         IN  shorter \cup {Append(l, e) : l \in shorter, e \in S}

GroupFilesSamples ==
    {[present |-> FALSE, list |-> <<>>]}
        \cup {[present |-> TRUE, list |-> l] : l \in ListsUpTo(EntrySamples, MaxEntries)}

FindFrame ==
    UNCHANGED <<schedVars, sleepVars, walkVars, updVars, detailVars, manualVars,
                clockVars>>

InitFind ==
    /\ ff_code \in CodeSamples
    /\ ff_files \in GroupFilesSamples
    /\ ff_result = <<>>
    /\ SchedIdle /\ SleepIdle /\ WalkIdle /\ UpdIdle /\ DetailIdle /\ ClockIdle
    /\ ManualIdle

\* one call of _find_file_in_group(ff_code, ff_files)
FindFile ==
    /\ ff_result = <<>>
    /\ ff_result' = <<_find_file_in_group(ff_code, ff_files)>>
    /\ UNCHANGED <<ff_code, ff_files>> /\ FindFrame

NextFind == FindFile

SpecFind == InitFind /\ [][NextFind]_vars

NamedEntry(name) == [has_name |-> TRUE, file_name |-> name]

\* C13: _find_file_in_group returns the first entry in input order whose file
\* name without its extension equals the key exactly, and None when no entry
\* has that base name or the list is empty or missing; key X001 is matched by
\* X001.zip and X001.pdf, and not by X0011.zip, x001.zip or a nameless
\* entry.
C13_FirstMatchInInputOrder ==
    ff_result # <<>> =>
        LET res == ff_result[1]
            files == ff_files.list
        IN  /\ res.found =>
                  /\ ff_files.present /\ res.index \in DOMAIN files
                  /\ BaseName(files[res.index]) = ff_code
                  /\ \A j \in 1..(res.index - 1) : BaseName(files[j]) # ff_code
            /\ ~res.found =>
                  /\ res = NoFile
                  /\ \A j \in DOMAIN files : BaseName(files[j]) # ff_code
            /\ (~ff_files.present \/ files = <<>>) => ~res.found
            /\ (ff_code = <<"X", "0", "0", "1">> /\ files # <<>>) =>
                  /\ files[1] \in {NamedEntry(<<"X", "0", "0", "1", ".", "z", "i", "p">>), NamedEntry(<<"X", "0", "0", "1", ".", "p", "d", "f">>)}
                        => res = [found |-> TRUE, index |-> 1]
                  /\ (\A j \in DOMAIN files :
                         files[j] \in {NamedEntry(<<"X", "0", "0", "1", "1", ".", "z", "i", "p">>), NamedEntry(<<"x", "0", "0", "1", ".", "z", "i", "p">>),
                                       [has_name |-> FALSE, file_name |-> <<>>]})
                        => ~res.found

\* C13 witness: with key X001 and the list X0011.zip, X001.zip the call
\* returned the second entry.
C13_Witness ==
    /\ ff_result = <<[found |-> TRUE, index |-> 2]>>
    /\ ff_code = <<"X", "0", "0", "1">>
    /\ ff_files = [present |-> TRUE,
                   list |-> <<NamedEntry(<<"X", "0", "0", "1", "1", ".", "z", "i", "p">>), NamedEntry(<<"X", "0", "0", "1", ".", "z", "i", "p">>)>>]

(***************************************************************************)
(* check_updates (main.py 379-399) with fetch_recent_updates (405-449) and *)
(* format_push_message (451-495): specification SpecUpdates.               *)
(* A message is the sequence of its lines and a line the sequence of its   *)
(* pieces of text; the fixed texts of the source, which are not ASCII, are *)
(* written as ASCII tags.                                                  *)
(***************************************************************************)
SecondsPerHour == 3600

\* str(n) for n >= 0
RECURSIVE DecimalText(_)
DecimalText(n) ==
    IF n < 10 THEN <<DigitChars[n + 1]>>
    ELSE Append(DecimalText(n \div 10), DigitChars[(n % 10) + 1])

\* seconds from 00:00:00 of day 0 to the datetime, its microseconds apart
DtSeconds(dt) == dt.day * SecondsPerDay + SecondOfDay(dt)

\* dt - datetime.timedelta(hours=h)
MinusHours(dt, h) ==
    LET t == DtSeconds(dt) - h * SecondsPerHour
    IN  [day |-> t \div SecondsPerDay,
         hour |-> (t % SecondsPerDay) \div SecondsPerHour,
         minute |-> (t % SecondsPerHour) \div 60,
         second |-> t % 60,
         microsecond |-> dt.microsecond]

\* strftime("%Y-%m-%d %H:%M:%S"): the date and the time to the second
strftime(dt) ==
    [day |-> dt.day, hour |-> dt.hour, minute |-> dt.minute, second |-> dt.second]

\* line 418: the hours of the window's start before now
WindowHours(hours) == 12

\* fetch_recent_updates up to its request (lines 416-434)
fetch_recent_updates_query(hours, now) ==
    [hours |-> hours,
     updateTimeStart |-> strftime(MinusHours(now, WindowHours(hours))),
     updateTimeEnd |-> strftime(now),
     status |-> "enable"]

\* fetch_recent_updates from the return of _fetch_json (lines 436-445): None
\* and every falsy payload become the empty list, anything else is returned
fetch_recent_updates_return(data) ==
    IF data.kind = "failed" \/ data.records = <<>>
    THEN [kind |-> "list", records |-> <<>>]
    ELSE data

\* EMOJI_MAP.get(file_type, EMOJI_MAP["DEFAULT"]) (lines 13-21, 473-474)
EmojiTypes == {"IMAGE", "VIDEO", "PDF", "ZIP", "BOOK", "TEXT", "DEFAULT"}

Emoji(item) ==
    IF item.fileType.has /\ item.fileType.val \in EmojiTypes
    THEN "glyph-" \o item.fileType.val
    ELSE "glyph-DEFAULT"

\* a digest that shows the code only
ItemCid_CodeOnly(item) ==
    IF item.code.has THEN item.code.val ELSE "None"

\* line 471: item.get("code") or item.get("id")
ItemCid(item) ==
    IF item.code.has /\ item.code.val # "" THEN item.code.val
    ELSE IF item.id.has THEN item.id.val
    ELSE "None"

\* line 472
ItemTitle(item) == IF item.title.has THEN item.title.val ELSE "untitled-default"

\* lines 477-484: the text of the update time, empty when the field is
\* absent or falsy or when its conversion raises
TimeStr(item) ==
    IF item.updateTime.kind = "converts" THEN item.updateTime.text ELSE ""

\* lines 486-488: the lines of item number i
ItemLines(i, item) ==
    <<DecimalText(i) \o <<". ", Emoji(item), " [", ItemCid(item), "] ",
                         ItemTitle(item)>>>>
        \o (IF TimeStr(item) # "" THEN << <<"   clock-glyph ", TimeStr(item)>> >>
            ELSE <<>>)

RECURSIVE AllItemLines(_, _)
AllItemLines(melons, i) ==
    IF i > Len(melons) THEN <<>>
    ELSE ItemLines(i, melons[i]) \o AllItemLines(melons, i + 1)

\* format_push_message (lines 451-495); iterating a payload that is no list
\* of records raises at item.get
format_push_message(melons, hours) ==
    IF melons.kind # "list" THEN [raised |-> TRUE, lines |-> <<>>]
    ELSE IF melons.records = <<>>
    THEN [raised |-> FALSE,
          lines |-> << <<"no-updates-in-last ">> \o DecimalText(hours)
                          \o <<" hours-no-updates">> >>]
    ELSE [raised |-> FALSE,
          lines |-> << <<"digest-title">>, <<"rule">>,
                       <<"in-last ">> \o DecimalText(hours) \o <<" hours-updated ">>
                           \o DecimalText(Len(melons.records)) \o <<" items:">>,
                       <<>> >>
                    \o AllItemLines(melons.records, 1)
                    \o << <<>>, <<"rule">>, <<"hint-cid-command">>,
                          <<"hint-password">> >>]

\* line 388: hours or self.push_check_hours
CheckHours ==
    IF cu_hours.given /\ cu_hours.val # 0 THEN cu_hours.val ELSE push_check_hours

\* lines 392-397: the reply for what fetch_recent_updates returned
CheckUpdatesReply(melons) ==
    LET message_text == format_push_message(melons, CheckHours)
    IN  IF message_text.raised
        THEN [failed |-> TRUE, text |-> << <<"check-failed: ", "error-text">> >>]
        ELSE [failed |-> FALSE, text |-> message_text.lines]

MaxRecords == 2

Field(v) == [has |-> TRUE, val |-> v]
NoField == [has |-> FALSE, val |-> ""]
NoTime == [kind |-> "absent", text |-> ""]

\* catalog records: the usual one; one without code; one with an empty code,
\* no title, no type and an update time that does not convert; one with an
\* unknown type and update time 0; one without any field
RecordSamples ==
    { [code |-> Field("A1"), id |-> NoField, title |-> Field("T"),
       fileType |-> Field("VIDEO"), updateTime |-> NoTime],
      [code |-> NoField, id |-> Field("77"), title |-> Field("U"),
       fileType |-> Field("ZIP"),
       updateTime |-> [kind |-> "converts", text |-> "11-04 07:30"]],
      [code |-> Field(""), id |-> Field("78"), title |-> NoField,
       fileType |-> NoField, updateTime |-> [kind |-> "raises", text |-> ""]],
      [code |-> Field("B2"), id |-> Field("79"), title |-> Field("V"),
       fileType |-> Field("OTHER"), updateTime |-> [kind |-> "zero", text |-> ""]],
      [code |-> NoField, id |-> NoField, title |-> NoField,
       fileType |-> NoField, updateTime |-> NoTime] }

\* what _fetch_json returns: None, a list of records, a payload that is not one
DataSamples ==
    {[kind |-> "failed", records |-> <<>>]}
        \cup {[kind |-> "list", records |-> l] : l \in ListsUpTo(RecordSamples, MaxRecords)}
        \cup {[kind |-> "malformed", records |-> <<"payload">>]}

HoursSamples ==
    {[given |-> FALSE, val |-> 0]}
        \cup {[given |-> TRUE, val |-> h] : h \in {0, 1, 12, 24}}

UpdNows ==
    { [day |-> 1, hour |-> 0, minute |-> 0, second |-> 0, microsecond |-> 0],
      [day |-> 1, hour |-> 7, minute |-> 30, second |-> 15, microsecond |-> 500000],
      [day |-> 1, hour |-> 23, minute |-> 59, second |-> 59, microsecond |-> 999999] }

UpdFrame ==
    UNCHANGED <<schedVars, sleepVars, walkVars, findVars, detailVars, manualVars,
                clockVars>>

InitUpdates ==
    /\ push_check_hours \in {6, 12}
    /\ cu_hours \in HoursSamples
    /\ cu_now \in UpdNows
    /\ cu_pc = "called"
    /\ cu_query = <<>> /\ cu_data = <<>> /\ cu_reply = <<>>
    /\ SchedIdle /\ SleepIdle /\ WalkIdle /\ FindIdle /\ DetailIdle /\ ClockIdle
    /\ ManualIdle

\* check_updates from its call to the await of _fetch_json (lines 387-391,
\* 416-434)
CheckUpdatesCalls ==
    /\ cu_pc = "called"
    /\ cu_query' = <<fetch_recent_updates_query(CheckHours, cu_now)>>
    /\ cu_pc' = "fetching"
    /\ UNCHANGED <<push_check_hours, cu_hours, cu_now, cu_data, cu_reply>>
    /\ UpdFrame

\* _fetch_json returns; check_updates runs to its reply (lines 436-449,
\* 392-399)
CheckUpdatesReplies ==
    /\ cu_pc = "fetching"
    /\ \E data \in DataSamples :
          /\ cu_data' = <<data>>
          /\ cu_reply' = <<CheckUpdatesReply(fetch_recent_updates_return(data))>>
    /\ cu_pc' = "replied"
    /\ UNCHANGED <<push_check_hours, cu_hours, cu_now, cu_query>>
    /\ UpdFrame

NextUpdates == CheckUpdatesCalls \/ CheckUpdatesReplies

SpecUpdates == InitUpdates /\ [][NextUpdates]_vars

\* the width of the queried window, in seconds
WindowSeconds(q) == DtSeconds(q.updateTimeEnd) - DtSeconds(q.updateTimeStart)

\* C14 as claimed: fetch_recent_updates(hours) queries the window that ends
\* now and starts hours hours earlier, so its width is the hours its caller
\* passed, and start < end (line 418 subtracts 12 hours whatever hours is).
C14_WindowWidthIsHoursArgument ==
    cu_query # <<>> =>
        LET q == cu_query[1]
        IN  /\ q.updateTimeEnd = strftime(cu_now)
            /\ WindowSeconds(q) = q.hours * SecondsPerHour
            /\ WindowSeconds(q) > 0

\* the message format_push_message gives for no records
NoUpdatesText ==
    << <<"no-updates-in-last ">> \o DecimalText(CheckHours)
           \o <<" hours-no-updates">> >>

\* C15 as claimed: a failed request (non-200 or transport error) is reported
\* as a failure, so check_updates does not answer it with the "no updates"
\* message of a fetch that succeeded with zero records (lines 436-438 return
\* the empty list for a failed request too).
C15_FailedFetchToldApart ==
    (cu_pc = "replied" /\ cu_data[1].kind = "failed")
        => cu_reply[1].text # NoUpdatesText

\* the first position of a piece of text in a line, 0 when it is not there
Pos(line, piece) ==
    IF \E k \in DOMAIN line : line[k] = piece
    THEN CHOOSE k \in DOMAIN line :
            line[k] = piece /\ \A j \in 1..(k - 1) : line[j] # piece
    ELSE 0

IsItemLine(line) == Pos(line, ". ") > 0
IsTimeLine(line) == line # <<>> /\ line[1] = "   clock-glyph "

\* what the claim expects an item line to show
ShownGlyph(rec) ==
    IF rec.fileType.has /\ rec.fileType.val \in {"VIDEO", "ZIP"}
    THEN "glyph-" \o rec.fileType.val ELSE "glyph-DEFAULT"
ShownCode(rec) ==
    IF rec.code.has /\ rec.code.val # "" THEN rec.code.val
    ELSE IF rec.id.has THEN rec.id.val ELSE "None"
ShownTitle(rec) == IF rec.title.has THEN rec.title.val ELSE "untitled-default"

\* C16: format_push_message, as check_updates replies with it: for no records
\* the message is exactly the one line that says no updates in the last
\* `hours` hours; for n >= 1 records it has a header line with the count n,
\* then one item line per record in input order, numbered 1..n, each showing
\* the type glyph, then the code (the id when the code is absent or empty),
\* then the title; a record whose updateTime is absent, zero or does not
\* convert has no time line after its item line, a record whose updateTime
\* converts has one, and the call never fails on a list of records.
C16_DigestShowsEveryRecordInOrder ==
    (cu_pc = "replied" /\ cu_data[1].kind = "list") =>
        LET recs == cu_data[1].records
            n == Len(recs)
            text == cu_reply[1].text
            items == SelectSeq(text, IsItemLine)
            times == SelectSeq(text, IsTimeLine)
        IN  /\ ~cu_reply[1].failed
            /\ n = 0 => text = NoUpdatesText /\ Len(text) = 1
            /\ n >= 1 =>
                  /\ text[3] = <<"in-last ">> \o DecimalText(CheckHours)
                                  \o <<" hours-updated ">> \o DecimalText(n)
                                  \o <<" items:">>
                  /\ ~IsItemLine(text[1]) /\ ~IsItemLine(text[2])
                  /\ Len(items) = n
                  /\ \A k \in 1..n :
                        LET l == items[k]
                        IN  /\ SubSeq(l, 1, Pos(l, ". ") - 1) = DecimalText(k)
                            /\ Pos(l, ". ") < Pos(l, ShownGlyph(recs[k]))
                            /\ Pos(l, ShownGlyph(recs[k])) < Pos(l, ShownCode(recs[k]))
                            /\ Pos(l, ShownCode(recs[k])) < Pos(l, ShownTitle(recs[k]))
                  /\ Len(times) = Cardinality({k \in 1..n :
                                      recs[k].updateTime.kind = "converts"})
                  /\ \A j \in DOMAIN text :
                        IsTimeLine(text[j]) =>
                            /\ j > 1 /\ IsItemLine(text[j - 1])
                            /\ \E k \in 1..n :
                                  /\ recs[k].updateTime.kind = "converts"
                                  /\ Pos(text[j - 1], ". ") > 1
                                  /\ SubSeq(text[j - 1], 1, Pos(text[j - 1], ". ") - 1)
                                        = DecimalText(k)
                                  /\ text[j][2] = recs[k].updateTime.text
                  /\ Len(text) = 8 + n + Len(times)

\* C16 witness: the digest of two records, the first with an update time that
\* does not convert and without code, title and type, the second the record
\* {code A1, title T, fileType VIDEO}: two item lines, no time line, the second
\* line showing the video glyph, A1 and T.
C16_Witness ==
    /\ cu_pc = "replied" /\ cu_data[1].kind = "list"
    /\ Len(cu_data[1].records) = 2
    /\ cu_data[1].records[1].updateTime.kind = "raises"
    /\ ~cu_reply[1].failed
    /\ CheckHours = 12
    /\ cu_reply[1].text[5] = <<"1", ". ", "glyph-DEFAULT", " [", "78", "] ",
                               "untitled-default">>
    /\ cu_reply[1].text[6] = <<"2", ". ", "glyph-VIDEO", " [", "A1", "] ", "T">>
    /\ Len(cu_reply[1].text) = 10

(***************************************************************************)
(* One push_task against the clock (main.py 547-576, 527-545):             *)
(* specification SpecClock. The clock is [s, us]: the seconds since        *)
(* 00:00:00 of day 0 and the microseconds. asyncio.sleep(d) returns when   *)
(* d has elapsed or later; a fire (send_push_to_groups) takes any time.    *)
(***************************************************************************)
CooldownSeconds == 60
BackoffSeconds == 300

\* the datetime that datetime.now() returns when the clock shows c
DtOfClock(c) ==
    [day |-> c.s \div SecondsPerDay,
     hour |-> (c.s % SecondsPerDay) \div SecondsPerHour,
     minute |-> (c.s % SecondsPerHour) \div 60,
     second |-> c.s % 60,
     microsecond |-> c.us]

\* the clock after seconds and microseconds more
ClockPlus(c, seconds, microseconds) ==
    LET us == c.us + microseconds
    IN  [s |-> c.s + seconds + (us \div MicrosPerSecond),
         us |-> us % MicrosPerSecond]

NotYet == [s |-> -1, us |-> 0]

\* a cycle that sleeps the 300 s and goes on to the push when the sleep time
\* cannot be computed
ClockBeginCycle_SleepsOnError(now) ==
    LET sleep_time == calculate_sleep_time(DtOfClock(now), ck_push_time)
    IN  IF sleep_time.raised
        THEN /\ ck_pc' = "sleeping"
             /\ ck_wake' = ClockPlus(now, BackoffSeconds, 0)
             /\ ck_pauses' = ck_pauses + 1
        ELSE /\ ck_pc' = "sleeping"
             /\ ck_wake' = ClockPlus(now, sleep_time.seconds,
                                     sleep_time.microseconds)
             /\ UNCHANGED ck_pauses

\* lines 556-563 and 574-576 with the clock at now: the sleep until the next
\* occurrence, or the 300 s pause when calculate_sleep_time raises
ClockBeginCycle(now) ==
    LET sleep_time == calculate_sleep_time(DtOfClock(now), ck_push_time)
    IN  IF sleep_time.raised
        THEN /\ ck_pc' = "backoff"
             /\ ck_wake' = ClockPlus(now, BackoffSeconds, 0)
             /\ ck_pauses' = ck_pauses + 1
        ELSE /\ ck_pc' = "sleeping"
             /\ ck_wake' = ClockPlus(now, sleep_time.seconds,
                                     sleep_time.microseconds)
             /\ UNCHANGED ck_pauses

MaxDays == 3

\* the model follows a task that cannot compute its sleep for MaxPauses pauses
MaxPauses == 3

\* how late a sleep returns, in seconds
Overshoots == {0, 1}

\* how long send_push_to_groups takes, in seconds: two seconds, a day less
\* the cooldown, more than a day
FireSeconds == {2, SecondsPerDay - CooldownSeconds, SecondsPerDay + SecondsPerHour}

\* three times of day, and texts that calculate_sleep_time refuses: an hour
\* and a minute out of range, no colon, two colons, a minute that is no number
ClockPushTimes ==
    { TimeText(8, 0), TimeText(0, 0), TimeText(23, 59),
      <<"2", "5", ":", "0", "0">>,
      <<"1", "2", ":", "6", "0">>,
      <<"x", "x">>,
      <<"0", "8", ":", "0", "0", ":", "0", "0">>,
      <<"0", "8", ":", "x">> }

ClockStarts ==
    { [s |-> 7 * SecondsPerHour + 59 * 60, us |-> 0],
      [s |-> 8 * SecondsPerHour, us |-> 0],
      [s |-> 8 * SecondsPerHour, us |-> 500000],
      [s |-> SecondsPerDay - 1, us |-> 999999] }

ClockFrame == UNCHANGED <<schedVars, sleepVars, walkVars, handlerVars>>

InitClock ==
    /\ ck_push_time \in ClockPushTimes
    /\ ck_now \in ClockStarts
    /\ ck_pc = "created"
    /\ ck_wake = NotYet
    /\ ck_fires = <<>>
    /\ ck_pauses = 0
    /\ SchedIdle /\ SleepIdle /\ WalkIdle /\ HandlerIdle

\* the model follows the task for MaxDays days
InHorizon == ck_now.s < MaxDays * SecondsPerDay

\* the task's first step (lines 554-563)
ClockStart ==
    /\ ck_pc = "created"
    /\ ClockBeginCycle(ck_now)
    /\ UNCHANGED <<ck_push_time, ck_now, ck_fires>> /\ ClockFrame

\* the sleep of line 563 returns and the fire begins (lines 566-567)
ClockSleepEnds ==
    /\ ck_pc = "sleeping" /\ InHorizon
    /\ \E late \in Overshoots :
          /\ ck_now' = ClockPlus(ck_wake, late, 0)
          /\ ck_fires' = Append(ck_fires,
                                [until |-> ck_wake, at |-> ck_now',
                                 ended |-> NotYet, resumed |-> NotYet])
    /\ ck_pc' = "firing"
    /\ UNCHANGED <<ck_push_time, ck_wake, ck_pauses>> /\ ClockFrame

\* a fire after which the next cycle begins at once
ClockFireReturns_NoCooldown ==
    /\ ck_pc = "firing"
    /\ \E took \in FireSeconds :
          /\ ck_now' = ClockPlus(ck_now, took, 0)
          /\ ck_fires' = [ck_fires EXCEPT ![Len(ck_fires)].ended = ck_now',
                                          ![Len(ck_fires)].resumed = ck_now']
          /\ ClockBeginCycle(ck_now')
    /\ UNCHANGED ck_push_time /\ ClockFrame

\* send_push_to_groups returns and the cooldown begins (lines 567-570)
ClockFireReturns ==
    /\ ck_pc = "firing"
    /\ \E took \in FireSeconds :
          /\ ck_now' = ClockPlus(ck_now, took, 0)
          /\ ck_fires' = [ck_fires EXCEPT ![Len(ck_fires)].ended = ck_now']
          /\ ck_wake' = ClockPlus(ck_now', CooldownSeconds, 0)
    /\ ck_pc' = "cooldown"
    /\ UNCHANGED <<ck_push_time, ck_pauses>> /\ ClockFrame

\* the cooldown of line 570 returns and the next cycle begins (556-563)
ClockCooldownEnds ==
    /\ ck_pc = "cooldown"
    /\ \E late \in Overshoots :
          /\ ck_now' = ClockPlus(ck_wake, late, 0)
          /\ ck_fires' = [ck_fires EXCEPT ![Len(ck_fires)].resumed = ck_now']
          /\ ClockBeginCycle(ck_now')
    /\ UNCHANGED ck_push_time /\ ClockFrame

\* the pause of line 576 returns and the next cycle begins (556-563)
ClockBackoffEnds ==
    /\ ck_pc = "backoff" /\ ck_pauses < MaxPauses
    /\ \E late \in Overshoots :
          /\ ck_now' = ClockPlus(ck_wake, late, 0)
          /\ ClockBeginCycle(ck_now')
    /\ UNCHANGED <<ck_push_time, ck_fires>> /\ ClockFrame

\* task.cancel() reaches the task at one of its awaits (lines 571-573)
ClockCancelled ==
    /\ ck_pc \in {"sleeping", "firing", "cooldown", "backoff"}
    /\ ck_pc' = "done"
    /\ UNCHANGED <<ck_push_time, ck_now, ck_wake, ck_fires, ck_pauses>>
    /\ ClockFrame

NextClock ==
    \/ ClockStart \/ ClockSleepEnds \/ ClockFireReturns \/ ClockCooldownEnds
    \/ ClockBackoffEnds \/ ClockCancelled

SpecClock == InitClock /\ [][NextClock]_vars

\* clock values in order
ClockLeq(a, b) == a.s < b.s \/ (a.s = b.s /\ a.us <= b.us)
ClockLess(a, b) == ClockLeq(a, b) /\ a # b

\* c is an occurrence of the task's time of day
IsOccurrence(c) ==
    /\ c.us = 0
    /\ \E h \in 0..23, m \in {0, 59} :
          /\ ck_push_time = TimeText(h, m)
          /\ c.s % SecondsPerDay = h * SecondsPerHour + m * 60

\* what every fire so far went through: a sleep that ended at or after an
\* occurrence of the configured time, and, once the task is back at its sleep
\* computation, the end of the fire and at least the cooldown after it
FiresFollowTheCycle ==
    \A i \in DOMAIN ck_fires :
        LET f == ck_fires[i]
        IN  /\ IsOccurrence(f.until)
            /\ ClockLeq(f.until, f.at)
            /\ f.ended # NotYet => ClockLeq(f.at, f.ended)
            /\ f.resumed # NotYet =>
                  /\ f.ended # NotYet
                  /\ ClockLeq(ClockPlus(f.ended, CooldownSeconds, 0), f.resumed)
            /\ i < Len(ck_fires) => f.resumed # NotYet
            /\ (i = Len(ck_fires) /\ ck_pc = "sleeping") => f.resumed # NotYet
            /\ (i = Len(ck_fires) /\ ck_pc = "cooldown") =>
                  /\ f.ended # NotYet /\ f.resumed = NotYet
                  /\ ck_wake = ClockPlus(f.ended, CooldownSeconds, 0)
            /\ (i = Len(ck_fires) /\ ck_pc = "firing") => f.ended = NotYet

\* no two fires for the same occurrence
OneFirePerOccurrence ==
    \A i, j \in DOMAIN ck_fires :
        i < j => ClockLess(ck_fires[i].until, ck_fires[j].until)

\* the occurrence the task sleeps towards after fire i
UntilAfter(i) ==
    IF i < Len(ck_fires) THEN ck_fires[i + 1].until ELSE ck_wake

SleepsAfterFire(i) ==
    i < Len(ck_fires) \/ (ck_pc = "sleeping" /\ ck_fires[i].resumed # NotYet)

\* C17 as claimed: every fire follows a sleep that ended at or after the
\* configured time and is followed by the 60 s cooldown, the sleep computed
\* after a fire targets the next day's occurrence, and no occurrence has two
\* fires, whatever the duration of the fire.
C17_SleepAfterFireTargetsNextDay ==
    /\ FiresFollowTheCycle
    /\ OneFirePerOccurrence
    /\ \A i \in DOMAIN ck_fires :
          SleepsAfterFire(i) =>
              UntilAfter(i) = ClockPlus(ck_fires[i].until, SecondsPerDay, 0)

\* C17 amended: every fire follows a sleep that ended at or after the
\* configured time and is followed by the 60 s cooldown; the sleep computed
\* after a fire targets the first occurrence strictly after the moment the
\* cooldown returned, which is the next day's occurrence when the lateness of
\* the sleep, the fire and the cooldown together took less than a day and a
\* later day's otherwise; no occurrence has two fires, whatever the duration
\* of the fire.
C17_SleepAfterFireTargetsNextOccurrence ==
    /\ FiresFollowTheCycle
    /\ OneFirePerOccurrence
    /\ \A i \in DOMAIN ck_fires :
          SleepsAfterFire(i) =>
              LET f == ck_fires[i]
                  next == UntilAfter(i)
                  nextDay == ClockPlus(f.until, SecondsPerDay, 0)
              IN  /\ IsOccurrence(next)
                  /\ ClockLess(f.resumed, next)
                  /\ ClockLeq([s |-> next.s - SecondsPerDay, us |-> 0], f.resumed)
                  /\ ClockLeq(nextDay, next)
                  /\ ClockLess(f.resumed, nextDay) => next = nextDay

\* C17 witness: two fires, the second for the occurrence one day after the
\* first's, both followed by their cooldown, and the task asleep again.
C17_Witness ==
    /\ Len(ck_fires) = 2 /\ ck_pc = "sleeping"
    /\ ck_fires[2].until = ClockPlus(ck_fires[1].until, SecondsPerDay, 0)
    /\ ck_fires[2].resumed # NotYet
    /\ ClockLeq(ClockPlus(ck_fires[2].ended, CooldownSeconds, 0),
                ck_fires[2].resumed)
    /\ ck_wake = ClockPlus(ck_fires[2].until, SecondsPerDay, 0)

(***************************************************************************)
(* query_detail (main.py 220-267): specification SpecDetail                *)
(***************************************************************************)
\* the position of the first blank of s from position k on, Len(s) + 1 when
\* there is none
RECURSIVE FirstBlank(_, _)
FirstBlank(s, k) ==
    IF k > Len(s) \/ s[k] = " " THEN k ELSE FirstBlank(s, k + 1)

\* lines 224-229: message_str.split(maxsplit=1), then parts[1].strip(); the
\* empty string when there are fewer than two parts
CommandArg(message) ==
    LET body == LStrip(message)
        cut  == FirstBlank(body, 1)
    IN  Strip(SubSeq(body, cut, Len(body)))

\* lines 314-327: building the reply from a group file compares its size
\* with numbers, which raises when the listing gave a size that is no number
GroupFileChainRaises(file_info) == ~file_info.size_is_number

\* a lookup after which the backend is always queried
NeedsBackend_Always(found, file_info) == TRUE

\* lines 243-250: the backend is not queried when the lookup gave an entry
\* and the reply was built from it
NeedsBackend(found, file_info) ==
    ~found \/ GroupFileChainRaises(file_info)

DetailMessages ==
    { <<Sep, "c", "i", "d">>,
      <<Sep, "c", "i", "d", " ", " ">>,
      <<Sep, "c", "i", "d", " ", "X", "0", "0", "1">>,
      <<Sep, "c", "i", "d", " ", " ", "X", "0", "0", "1", " ">> }

\* no group, a numeric group id, a group id that int() refuses
GroupIds == { <<>>, <<"4", "2">>, <<"g", "4", "2">> }

DetailEntries ==
    { [has_name |-> TRUE, file_name |-> <<"X", "0", "0", "1", ".", "z", "i", "p">>,
       size_is_number |-> TRUE],
      [has_name |-> TRUE, file_name |-> <<"X", "0", "0", "1", ".", "p", "d", "f">>,
       size_is_number |-> FALSE],
      [has_name |-> TRUE,
       file_name |-> <<"X", "0", "0", "1", "1", ".", "z", "i", "p">>,
       size_is_number |-> TRUE],
      [has_name |-> FALSE, file_name |-> <<>>, size_is_number |-> TRUE] }

\* what get_all_files_recursive_core does: raises, or returns a list
WalkOutcomes ==
    {[raised |-> TRUE, list |-> <<>>]}
        \cup {[raised |-> FALSE, list |-> l] :
                 l \in ListsUpTo(DetailEntries, MaxEntries)}

\* _get_all_group_files (lines 115-130): the list, the empty list on an error
_get_all_group_files(outcome) ==
    [present |-> TRUE, list |-> IF outcome.raised THEN <<>> ELSE outcome.list]

DetailFrame ==
    UNCHANGED <<schedVars, sleepVars, walkVars, findVars, updVars, manualVars,
                clockVars>>

InitDetail ==
    /\ qd_message \in DetailMessages
    /\ qd_group_id \in GroupIds
    /\ qd_bot \in BOOLEAN
    /\ qd_pc = "called"
    /\ qd_files = <<>> /\ qd_match = <<>> /\ qd_queries = <<>> /\ qd_replies = <<>>
    /\ SchedIdle /\ SleepIdle /\ WalkIdle /\ FindIdle /\ UpdIdle /\ ClockIdle
    /\ ManualIdle

\* query_detail from its call to its first await or its return (224-240,
\* 249-254)
QueryDetailCalls ==
    /\ qd_pc = "called"
    /\ LET cid_arg == CommandArg(qd_message)
       IN  IF cid_arg = <<>>
           THEN /\ qd_replies' = Append(qd_replies, "usage")
                /\ qd_pc' = "returned"
                /\ UNCHANGED qd_queries
           ELSE /\ qd_replies' = Append(qd_replies, "please_wait")
                /\ IF qd_group_id # <<>> /\ qd_bot /\ ParseInt(qd_group_id).ok
                   THEN qd_pc' = "walking" /\ UNCHANGED qd_queries
                   ELSE /\ qd_pc' = "querying"
                        /\ qd_queries' = Append(qd_queries, cid_arg)
    /\ UNCHANGED <<qd_message, qd_group_id, qd_bot, qd_files, qd_match>>
    /\ DetailFrame

\* _get_all_group_files returns: the lookup, then the reply from the group
\* file or the backend query (lines 240-254)
QueryDetailLooksUp ==
    /\ qd_pc = "walking"
    /\ \E outcome \in WalkOutcomes :
          LET cid_arg == CommandArg(qd_message)
              group_files == _get_all_group_files(outcome)
              group_file == _find_file_in_group(cid_arg, group_files)
              file_info == IF group_file.found
                           THEN group_files.list[group_file.index]
                           ELSE [has_name |-> FALSE, file_name |-> <<>>,
                                 size_is_number |-> TRUE]
          IN  /\ qd_files' = <<outcome>>
              /\ qd_match' = <<group_file>>
              /\ IF NeedsBackend(group_file.found, file_info)
                 THEN /\ qd_pc' = "querying"
                      /\ qd_queries' = Append(qd_queries, cid_arg)
                      /\ UNCHANGED qd_replies
                 ELSE /\ qd_pc' = "returned"
                      /\ qd_replies' = Append(qd_replies, "group_file")
                      /\ UNCHANGED qd_queries
    /\ UNCHANGED <<qd_message, qd_group_id, qd_bot>>
    /\ DetailFrame

\* the backend query returns and query_detail replies (lines 254-267)
QueryDetailReplies ==
    /\ qd_pc = "querying"
    /\ \E raw_data \in {"failed", "empty", "record"} :
          qd_replies' = Append(qd_replies,
                               CASE raw_data = "failed" -> "request_failed"
                                 [] raw_data = "empty"  -> "not_found"
                                 [] OTHER               -> "detail")
    /\ qd_pc' = "returned"
    /\ UNCHANGED <<qd_message, qd_group_id, qd_bot, qd_files, qd_match, qd_queries>>
    /\ DetailFrame

NextDetail == QueryDetailCalls \/ QueryDetailLooksUp \/ QueryDetailReplies

SpecDetail == InitDetail /\ [][NextDetail]_vars

\* the lookup of the call produced a match
LookupMatched == qd_match # <<>> /\ qd_match[1].found

\* the call got past its argument check
DetailAsked == qd_replies # <<>> /\ qd_replies[1] = "please_wait"

ReplyBuiltFromMatch ==
    /\ LookupMatched
    /\ qd_files[1].list[qd_match[1].index].size_is_number

HasNextStep(t) ==
    /\ Runnable(t)
    /\ _push_tasks[t].pc \in {"created", "sleep", "fetch", "send", "pause",
                               "cooldown", "backoff"}

\* a step that leaves every task but t as it was
OnlyTaskChanged(t) ==
    \A u \in Tasks : u # t => _push_tasks'[u] = _push_tasks[u]

C20_PauseBetweenSendAttempts ==
    [][\A t \in Tasks :
          (_push_tasks[t].i >= 1 /\ _push_tasks'[t].i = _push_tasks[t].i + 1)
              => _push_tasks[t].pc = "pause"]_vars


\* the name with its last '.'-delimited suffix removed: everything before the
\* last dot, and the whole name when it has no dot
LastSuffixRemoved(name) ==
    LET dots == {k \in DOMAIN name : name[k] = "."}
    IN  IF dots = {} THEN name
        ELSE SubSeq(name, 1, (CHOOSE k \in dots : \A j \in dots : j <= k) - 1)

\* the first position of the list whose name, cut by LastSuffixRemoved, is the
\* key; 0 when there is none
FirstByLastSuffix(code, files) ==
    LET hits == {i \in DOMAIN files : LastSuffixRemoved(FileNameOf(files[i])) = code}
    IN  IF hits = {} THEN 0 ELSE CHOOSE i \in hits : \A j \in hits : i <= j

\* C21 as claimed: for every file name the base name compared with the key is
\* the name with its last '.'-delimited suffix removed, so the call returns
\* the first entry whose name cut at its last dot equals the key exactly, and
\* None when there is none (names with no dot, several dots, a leading dot
\* and a trailing dot included).
C21_BaseNameIsLastSuffixRemoved ==
    (ff_result # <<>> /\ ff_files.present) =>
        LET want == FirstByLastSuffix(ff_code, ff_files.list)
        IN  ff_result[1] = [found |-> want # 0, index |-> want]

\* the dots of a name that end a stem: they stand in the last '/'-separated
\* component and some character of that component before them is not a dot
StemDots(name) ==
    {k \in DOMAIN name :
        /\ name[k] = "."
        /\ \A j \in k..Len(name) : name[j] # "/"
        /\ \E j \in 1..(k - 1) :
              /\ name[j] # "."
              /\ \A i \in j..k : name[i] # "/"}

\* the name cut at its last stem dot, and the whole name when it has none
StemOf(name) ==
    LET dots == StemDots(name)
    IN  IF dots = {} THEN name
        ELSE SubSeq(name, 1, (CHOOSE k \in dots : \A j \in dots : j <= k) - 1)

FirstByStem(code, files) ==
    LET hits == {i \in DOMAIN files : StemOf(FileNameOf(files[i])) = code}
    IN  IF hits = {} THEN 0 ELSE CHOOSE i \in hits : \A j \in hits : i <= j

\* C21 amended: the base name compared with the key is the name cut at its
\* last dot only when that dot stands in the last '/'-separated component
\* after a character of it that is not a dot; otherwise (no dot, only leading
\* dots as in .X001, a dot before a '/') it is the whole name.  X001.tar.gz
\* gives X001.tar and X001. gives X001; the comparison is exact, so x001.zip
\* and " X001.zip" do not match key X001.
C21_BaseNameIsStem ==
    (ff_result # <<>> /\ ff_files.present) =>
        LET want == FirstByStem(ff_code, ff_files.list)
            files == ff_files.list
        IN  /\ ff_result[1] = [found |-> want # 0, index |-> want]
            /\ (ff_code = <<"X", "0", "0", "1">> /\ Len(files) = 1) =>
                  /\ files[1] \in {NamedEntry(<<"X", "0", "0", "1">>),
                                   NamedEntry(<<"X", "0", "0", "1", ".">>)}
                        => ff_result[1].found
                  /\ files[1] \in {NamedEntry(<<"X", "0", "0", "1", ".", "t", "a", "r", ".", "g", "z">>),
                                   NamedEntry(<<".", "X", "0", "0", "1">>),
                                   NamedEntry(<<"x", "0", "0", "1", ".", "z", "i", "p">>),
                                   NamedEntry(<<" ", "X", "0", "0", "1", ".", "z", "i", "p">>)}
                        => ~ff_result[1].found

\* C21 witness: with key .X001 the call returned the entry named .X001, whose
\* only dot is a leading one.
C21_Witness ==
    /\ ff_code = <<".", "X", "0", "0", "1">>
    /\ ff_files = [present |-> TRUE, list |-> <<NamedEntry(<<".", "X", "0", "0", "1">>)>>]
    /\ ff_result = <<[found |-> TRUE, index |-> 1]>>


\* the configured text is no HH:MM time of day
NotATimeOfDay ==
    LET t == ck_push_time
    IN  ~ /\ Len(t) = 5 /\ t[3] = ":"
          /\ \A k \in {1, 2, 4, 5} : IsDigit(t[k])
          /\ DigitVal(t[1]) * 10 + DigitVal(t[2]) <= 23
          /\ DigitVal(t[4]) * 10 + DigitVal(t[5]) <= 59

\* what holds of a task whose time is no time of day: it never entered a
\* sleep, a fire or a cooldown, and after its first step it is in a 300 s
\* pause that began at the moment of the failed cycle, or ended
NeverPastTheSleepTime ==
    NotATimeOfDay =>
        /\ ck_fires = <<>>
        /\ ck_pc \in {"created", "backoff", "done"}
        /\ ck_pc = "created" => ck_pauses = 0
        /\ ck_pc = "backoff" =>
              /\ ck_pauses >= 1
              /\ ck_wake = ClockPlus(ck_now, BackoffSeconds, 0)

\* the steps of such a task: from its creation or from the end of a pause,
\* not before the 300 s are over, into the next pause without the clock
\* moving in between
RetriesAfterEachPause ==
    (NotATimeOfDay /\ ck_pc' # "done") =>
        /\ ck_pc' = "backoff"
        /\ ck_pauses' = ck_pauses + 1
        /\ ck_pc = "created" => ck_now' = ck_now
        /\ ck_pc = "backoff" => ClockLeq(ClockPlus(ck_now, BackoffSeconds, 0), ck_now')
        /\ ck_wake' = ClockPlus(ck_now', BackoffSeconds, 0)

\* the one step that ends such a task is a cancellation delivered at the
\* await of its pause, which changes nothing else
EndsOnlyCancelled ==
    (NotATimeOfDay /\ ck_pc' = "done" /\ ck_pc # "done") =>
        /\ ck_pc = "backoff"
        /\ UNCHANGED <<ck_push_time, ck_now, ck_wake, ck_fires, ck_pauses>>

\* C22: a push_task whose configured time cannot be parsed as HH:MM, or has an
\* hour or minute out of range, never fires: each cycle fails in
\* calculate_sleep_time before any sleep towards a push, the task pauses at
\* least 300 s and begins the next cycle, which fails again, and nothing but
\* its cancellation ends it.
C22_UnparseableTimeBacksOffForever ==
    /\ []NeverPastTheSleepTime
    /\ [][RetriesAfterEachPause /\ EndsOnlyCancelled]_vars

\* C22 witness: the task of push time "12:60" is in its third pause, more
\* than 600 s after its start, without a fire.
C22_Witness ==
    /\ ck_push_time = <<"1", "2", ":", "6", "0">>
    /\ ck_pc = "backoff" /\ ck_pauses = 3
    /\ ck_fires = <<>>


(***************************************************************************)
(* manual_push (main.py 578-592) running send_push_to_groups (497-525):    *)
(* specification SpecManual.  The locals of the running                    *)
(* send_push_to_groups are kept in a record of the shape the scheduler     *)
(* uses for a push_task, and its steps are computed by the same operators; *)
(* these mark the return of send_push_to_groups by the position of that    *)
(* caller, "cooldown".                                                     *)
(*   pc of the call: "fetch" | "send" | "pause"  the await it is at        *)
(*                   "returned"   the handler ran to its end               *)
(*                   "cancelled"  CancelledError ended it                  *)
(***************************************************************************)
\* the replies of lines 585-587 and 590
SuccessReply(n) == [kind |-> "success", groups |-> n]
FailureReply == [kind |-> "failure", groups |-> 0]

\* a success message that names the destinations a send returned for
ManualSuccess_CountsDelivered(r) ==
    SuccessReply(Len(r.attempted) - Len(r.raised))

\* lines 585-587
ManualSuccess(r) == SuccessReply(Len(push_target_groups))

\* how the await of line 583 stands: send_push_to_groups is suspended at one
\* of its awaits or has returned; its "except Exception" of lines 524-525
\* lets no Exception out
FanOutOutcome(r) ==
    IF r.pc = "cooldown" THEN "returned"
    ELSE IF r.pc \in {"fetch", "send", "pause"} THEN "awaiting"
    ELSE "raised"

\* manual_push after a step of send_push_to_groups (lines 583-592)
ManualResumes(r) ==
    CASE FanOutOutcome(r) = "awaiting" ->
            /\ mp_call' = <<r>>
            /\ UNCHANGED <<mp_replies, mp_stopped>>
      [] FanOutOutcome(r) = "returned" ->
            /\ mp_call' = <<[r EXCEPT !.pc = "returned"]>>
            /\ mp_replies' = Append(mp_replies, ManualSuccess(r))
            /\ mp_stopped' = TRUE
      [] OTHER ->
            /\ mp_call' = <<[r EXCEPT !.pc = "returned"]>>
            /\ mp_replies' = Append(mp_replies, FailureReply)
            /\ mp_stopped' = TRUE

ManualFrame ==
    UNCHANGED <<schedVars, sleepVars, walkVars, findVars, updVars, detailVars,
                clockVars>>

\* the plugin with any configuration, before initialize, running, or after
\* terminate closed the session
InitManual ==
    /\ push_enabled \in BOOLEAN
    /\ push_target_groups \in {GroupList(n) : n \in 0..MaxGroups}
    /\ _session \in {"none", "open", "closed"}
    /\ push_times = <<>> /\ _push_tasks = <<>> /\ life = "constructed"
    /\ reqOnClosed = FALSE /\ status_reply = "none"
    /\ ManualIdle
    /\ SleepIdle /\ WalkIdle /\ FindIdle /\ UpdIdle /\ DetailIdle /\ ClockIdle

\* the command arrives: lines 581-583, 501, 434, 77; without an open session
\* the request is refused at once and _fetch_json returns None
ManualPushCalls ==
    /\ mp_call = <<>>
    /\ LET r == [NewTask(<<>>) EXCEPT !.fired = TRUE]
       IN  IF _session = "open"
           THEN ManualResumes([r EXCEPT !.pc = "fetch"])
           ELSE ManualResumes(AfterFetch(r, "failed"))
    /\ ManualFrame

\* the request ends, one way or another (lines 78-84, 436-449, 503-517)
ManualFetchReturns ==
    /\ mp_call # <<>> /\ mp_call[1].pc = "fetch"
    /\ \E data \in FetchOutcomes : ManualResumes(AfterFetch(mp_call[1], data))
    /\ ManualFrame

\* send_message returned (lines 517-520)
ManualSendReturns ==
    /\ mp_call # <<>> /\ mp_call[1].pc = "send"
    /\ ManualResumes([mp_call[1] EXCEPT !.pc = "pause"])
    /\ ManualFrame

\* send_message raised (lines 517, 521-522, then the next iteration)
ManualSendRaises ==
    /\ mp_call # <<>> /\ mp_call[1].pc = "send"
    /\ ManualResumes(NextDestination(
          OnSendError([mp_call[1] EXCEPT
             !.raised = Append(@, push_target_groups[mp_call[1].i])])))
    /\ ManualFrame

\* the 1 s pause is over (line 520, then the next iteration)
ManualPauseEnds ==
    /\ mp_call # <<>> /\ mp_call[1].pc = "pause"
    /\ ManualResumes(NextDestination(mp_call[1]))
    /\ ManualFrame

\* the handler's task is cancelled at one of its awaits: CancelledError
\* passes the "except Exception" of lines 521, 524 and 588, and the finally
\* of lines 591-592 runs
ManualCancelled ==
    /\ mp_call # <<>> /\ mp_call[1].pc \in {"fetch", "send", "pause"}
    /\ mp_call' = <<[mp_call[1] EXCEPT !.pc = "cancelled", !.cancelledAt = mp_call[1].pc]>>
    /\ mp_stopped' = TRUE
    /\ UNCHANGED mp_replies
    /\ ManualFrame

NextManual ==
    \/ ManualPushCalls \/ ManualFetchReturns \/ ManualSendReturns
    \/ ManualSendRaises \/ ManualPauseEnds \/ ManualCancelled

SpecManual == InitManual /\ [][NextManual]_vars

\* C23: manual_push replies with the success message naming
\* len(push_target_groups) destinations whenever send_push_to_groups returns,
\* which it does for every outcome but a cancellation: also when the fetch
\* failed or its payload made the formatting raise, when some or all sends
\* raised, and when the target list is empty and nothing was sent; the
\* failure reply is never yielded, and a cancelled call yields no reply.
C23_ManualPushRepliesSuccess ==
    /\ \A i \in DOMAIN mp_replies :
          mp_replies[i] = SuccessReply(Len(push_target_groups))
    /\ Len(mp_replies) <= 1
    /\ mp_call = <<>> => mp_replies = <<>> /\ ~mp_stopped
    /\ mp_call # <<>> =>
          LET r == mp_call[1]
          IN  /\ r.pc \in {"fetch", "send", "pause", "returned", "cancelled"}
              /\ (r.pc = "returned") = (Len(mp_replies) = 1)
              /\ mp_stopped = (r.pc \in {"returned", "cancelled"})
              /\ r.pc = "cancelled" => r.cancelledAt \in {"fetch", "send", "pause"}
              /\ push_target_groups = <<>> => r.attempted = <<>>
              /\ r.pc = "returned" =>
                    \/ r.attempted = push_target_groups
                    \/ r.attempted = <<>>

\* C23 witness: with two or more destinations every send raised, and the
\* handler replied that it pushed to all of them.
C23_Witness ==
    /\ Len(push_target_groups) >= 2
    /\ mp_call # <<>>
    /\ mp_call[1].pc = "returned"
    /\ mp_call[1].raised = push_target_groups
    /\ mp_replies = <<SuccessReply(Len(push_target_groups))>>

====
